---- MODULE Spec2Model ----
(***************************************************************************)
(* Model of the price-trigger subscription manager                         *)
(* (okx_trade_agent/utils/subscription.py) and of the retry wrapper of the *)
(* exchange clients (okx_trade_agent/utils/okx_trade_tools.py).            *)
(*                                                                         *)
(* Everything runs on one asyncio event loop: a step of the model is the   *)
(* code a task runs between two suspension points (an await that can       *)
(* yield), or one synchronous call.  Prices are integers (price ticks).    *)
(* An optional value (None in the source) is a sequence of length 0 or 1.  *)
(***************************************************************************)
EXTENDS Integers, Sequences, FiniteSets, TLC

\* ------------------------------------------------------------------ bounds
\* Number of subscribe() calls in a run.
MaxCalls == 2
\* Feed messages delivered by the callback and not yet handled.
MaxPending == 1
\* Largest max_checks a polling subscribe is given.
MaxChecks == 2
\* Samples a polling loop without max_checks is followed for.
MaxPolls == MaxChecks + 1

Insts == {"BTC-USDT-SWAP", "ETH-USDT-SWAP"}
Targets == {2}
Tolerances == {0, 1}
Prices == 1..3
Directions == {"above", "below", "sideways"}
MaxChecksArgs == {<<>>} \cup {<<n>> : n \in 1..MaxChecks}
CallIds == 1..MaxCalls

VARIABLES
    wsAvailable,    \* WsPublicAsync is not None (the feed library imported)
    event,          \* _event: the asyncio.Event's flag
    flow,           \* the flow that awaits the event: where it stands
    ws,             \* _ws: <<>> or <<n>>, the n-th connection object created
    ws_connected,   \* _ws_connected
    ws_lock,        \* _ws_lock: 0 when free, else the call id of the holder
    lock_waiters,   \* _ws_lock's FIFO of waiting tasks
    ws_started,     \* connection objects whose start() succeeded
    watchers,       \* _watchers: instId -> list of watcher ids
    wobj,           \* the watcher dicts (and polling tasks' locals), by call id
    ncalls,         \* subscribe() calls made so far
    task,           \* per call id: the position of the task subscribe() created
    subscribed,     \* _subscribed
    sub_sent,       \* per instId: ticker subscribe requests the feed accepted
    inbox,          \* _handle_message tasks created by _callback, not yet run
    last_trigger,   \* _last_trigger: <<>> or <<record>>
    r_pc,           \* _RetryWrapper's wrapped(): where one call of it stands
    r_op,           \* the name of the wrapped operation
    r_i,            \* the loop variable i of wrapped()
    r_calls,        \* calls of the wrapped operation made so far
    r_hist,         \* the responses the operation has returned, in order
    r_last,         \* last_res: <<>> or <<response>>
    r_ret,          \* what wrapped() returned: <<>> or <<response>>
    r_slept,        \* the delays of its time.sleep calls, in tenths of a second
    acct_mode,      \* the exchange account's position mode (posMode)
    acct_lever,     \* the leverage the account was last set to: <<>> or <<n>>
    o_pc,           \* place_okx_order: the exchange call it is waiting in
    o_intent,       \* its arguments
    o_calls,        \* the exchange calls it has issued, in order
    o_pos_mode,     \* pos_mode: the mode get_account_config reported, or "None"
    o_ct_val_f,     \* ct_val_f: the contract value it read, in units of 0.0001
    o_contracts,    \* contracts: the unquantized number of contracts
    o_payload,      \* the payload of its place_order call: <<>> or <<record>>
    o_result,       \* what it returned: <<>> or <<record>>
    o_err,          \* the exception it raised, if any
    q_pc,           \* the latest call of _quantize_size: how it ended
    q_step,         \* the lotSz of the instrument it was given
    q_size,         \* its base_size
    q_ret,          \* what it returned (<<>> or <<size>>) or raised
    c_pc,           \* close_position: the exchange call it is waiting in
    c_args,         \* its arguments
    c_calls,        \* the exchange calls it has issued, in order
    c_position,     \* the position it found: <<>> or <<position>>
    c_pos_size,     \* pos_size: the size of that position
    c_payload,      \* the payload of its place_order call: <<>> or <<record>>
    c_result,       \* what it returned: <<>> or <<record>>
    c_err           \* the exception it raised, if any

mgrVars == <<wsAvailable, event, flow, ws, ws_connected, ws_lock, lock_waiters,
             ws_started, watchers, wobj, ncalls, task, subscribed, sub_sent,
             inbox, last_trigger>>

retryVars == <<r_pc, r_op, r_i, r_calls, r_hist, r_last, r_ret, r_slept>>

\* What the actions of the subscription manager, of the retry wrapper, of
\* place_okx_order and of _quantize_size leave alone.
orderVars == <<acct_mode, acct_lever, o_pc, o_intent, o_calls, o_pos_mode,
               o_ct_val_f, o_contracts, o_payload, o_result, o_err>>

quantVars == <<q_pc, q_step, q_size, q_ret>>

closeVars ==
    <<c_pc, c_args, c_calls, c_position, c_pos_size, c_payload, c_result,
      c_err>>

nonMgrVars == <<retryVars, orderVars, quantVars, closeVars>>
nonRetryVars == <<mgrVars, orderVars, quantVars, closeVars>>
nonOrderVars == <<mgrVars, retryVars, quantVars, closeVars>>
nonQuantVars == <<mgrVars, retryVars, orderVars, closeVars>>
nonCloseVars == <<mgrVars, retryVars, orderVars, quantVars>>

vars == <<mgrVars, retryVars, orderVars, quantVars, closeVars>>

NoWatcher == [symbol |-> <<>>, inst_id |-> "", target_price |-> 0,
              direction |-> "",
              tolerance |-> 0, status |-> "none", last_price |-> <<>>,
              mode |-> "none", max_checks |-> <<>>, checks |-> 0, samples |-> 0]

\* PriceSubscriptionManager.__init__
InitMgr ==
    /\ wsAvailable \in BOOLEAN
    /\ event = FALSE
    /\ flow = "idle"
    /\ ws = <<>>
    /\ ws_connected = FALSE
    /\ ws_lock = 0
    /\ lock_waiters = <<>>
    /\ ws_started = {}
    /\ watchers = [i \in Insts |-> <<>>]
    /\ wobj = [c \in CallIds |-> NoWatcher]
    /\ ncalls = 0
    /\ task = [c \in CallIds |-> "none"]
    /\ subscribed = {}
    /\ sub_sent = [i \in Insts |-> 0]
    /\ inbox = <<>>
    /\ last_trigger = <<>>

\* ------------------------------------------------------------ wake signal
\* A set() that raises the flag and leaves the suspended flow where it is.
Trigger_flow_Lost(f) == f

\* asyncio.Event.set() as _trigger calls it: the flag is set and the future of
\* a flow suspended in wait() is resolved.
Trigger_flow(f) == IF f = "waiting" THEN "woken" ELSE f

\* clear_event
ClearEvent ==
    /\ event' = FALSE
    /\ UNCHANGED <<wsAvailable, flow, ws, ws_connected, ws_lock, lock_waiters,
                   ws_started, watchers, wobj, ncalls, task, subscribed,
                   sub_sent, inbox, last_trigger,
                   nonMgrVars>>

\* An argument of subscribe is a string; the model holds it cut at its
\* separators, <<"BTC", "/", "USDT", ":", "USDT">> for "BTC/USDT:USDT".
Bases == {"BTC", "ETH"}

NativeSymbol(base) == <<base, "-", "USDT", "-", "SWAP">>

NativeSymbols == {NativeSymbol(b) : b \in Bases}

\* The spellings subscribe is called with: the native id, the pair, and the
\* pair with its settlement currency.
Symbols ==
    NativeSymbols
    \cup {<<b, "/", "USDT">> : b \in Bases}
    \cup {<<b, "/", "USDT", ":", "USDT">> : b \in Bases}

\* The string a cut string stands for.
RECURSIVE Text(_)
Text(symbol) ==
    IF symbol = <<>> THEN "" ELSE Head(symbol) \o Text(Tail(symbol))

\* `sep in symbol`
Contains(symbol, sep) == \E n \in 1..Len(symbol) : symbol[n] = sep

\* `symbol.endswith("-SWAP")`
EndsWithSwap(symbol) ==
    /\ Len(symbol) >= 2
    /\ symbol[Len(symbol) - 1] = "-"
    /\ symbol[Len(symbol)] = "SWAP"

\* `symbol.split(sep)[0]`: the part before the first sep, all of it when
\* there is none.
RECURSIVE PartBefore(_, _)
PartBefore(symbol, sep) ==
    IF symbol = <<>> \/ Head(symbol) = sep THEN <<>>
    ELSE <<Head(symbol)>> \o PartBefore(Tail(symbol), sep)

\* The part after the first sep.
PartAfter(symbol, sep) ==
    SubSeq(symbol, Len(PartBefore(symbol, sep)) + 2, Len(symbol))

\* A normalization that returns every spelling as it came.
NormalizeInstId_Same(symbol) == symbol

\* _normalize_inst_id: an id that ends in -SWAP is kept, a pair is cut at
\* the colon and rebuilt as base-quote-SWAP, anything else is kept. (A pair
\* with a second slash makes the unpacking raise; no such spelling is used.)
NormalizeInstId(symbol) ==
    IF EndsWithSwap(symbol) /\ Contains(symbol, "-") THEN symbol
    ELSE IF Contains(symbol, "/")
    THEN LET base_quote == PartBefore(symbol, ":")
             base == PartBefore(base_quote, "/")
             quote == PartAfter(base_quote, "/")
         IN base \o <<"-">> \o quote \o <<"-", "SWAP">>
    ELSE symbol

\* A subscribe that keeps the record of the last trigger.
Subscribe_KeepTrigger(symbol, target, direction, tol, mc) ==
    /\ ncalls < MaxCalls
    /\ ncalls' = ncalls + 1
    /\ LET c == ncalls + 1
           inst == Text(NormalizeInstId(symbol))
       IN
       IF wsAvailable
       THEN /\ task' = [task EXCEPT ![c] = "start"]
            /\ wobj' = [wobj EXCEPT ![c] =
                   [symbol |-> symbol, inst_id |-> inst,
                    target_price |-> target,
                    direction |-> direction, tolerance |-> tol,
                    status |-> "scheduled", last_price |-> <<>>,
                    mode |-> "websocket", max_checks |-> <<>>,
                    checks |-> 0, samples |-> 0]]
            /\ watchers' = [watchers EXCEPT ![inst] = Append(@, c)]
       ELSE /\ task' = [task EXCEPT ![c] = "poll"]
            /\ wobj' = [wobj EXCEPT ![c] =
                   [symbol |-> symbol, inst_id |-> inst,
                    target_price |-> target,
                    direction |-> direction, tolerance |-> tol,
                    status |-> "scheduled", last_price |-> <<>>,
                    mode |-> "polling", max_checks |-> mc,
                    checks |-> 0, samples |-> 0]]
            /\ UNCHANGED watchers
    /\ UNCHANGED <<wsAvailable, event, flow, ws, ws_connected, ws_lock,
                   lock_waiters, ws_started, subscribed, sub_sent, inbox,
                   last_trigger,
                   nonMgrVars>>

\* ---------------------------------------------------------------- subscribe
\* subscribe: the feed path registers a watcher and creates the task that runs
\* _subscribe_inst; without the feed library a polling task is created.
Subscribe(symbol, target, direction, tol, mc) ==
    /\ ncalls < MaxCalls
    /\ ncalls' = ncalls + 1
    /\ LET c == ncalls + 1
           inst == Text(NormalizeInstId(symbol))
       IN
       IF wsAvailable
       THEN /\ task' = [task EXCEPT ![c] = "start"]
            /\ wobj' = [wobj EXCEPT ![c] =
                   [symbol |-> symbol, inst_id |-> inst,
                    target_price |-> target,
                    direction |-> direction, tolerance |-> tol,
                    status |-> "scheduled", last_price |-> <<>>,
                    mode |-> "websocket", max_checks |-> <<>>,
                    checks |-> 0, samples |-> 0]]
            /\ watchers' = [watchers EXCEPT ![inst] = Append(@, c)]
       ELSE /\ task' = [task EXCEPT ![c] = "poll"]
            /\ wobj' = [wobj EXCEPT ![c] =
                   [symbol |-> symbol, inst_id |-> inst,
                    target_price |-> target,
                    direction |-> direction, tolerance |-> tol,
                    status |-> "scheduled", last_price |-> <<>>,
                    mode |-> "polling", max_checks |-> mc,
                    checks |-> 0, samples |-> 0]]
            /\ UNCHANGED watchers
    /\ last_trigger' = <<>>
    /\ UNCHANGED <<wsAvailable, event, flow, ws, ws_connected, ws_lock,
                   lock_waiters, ws_started, subscribed, sub_sent, inbox,
                   nonMgrVars>>

\* ------------------------------------------------------- feed connection
\* The id of the connection object a WsPublicAsync(...) call creates.
NewWs == IF ws = <<>> THEN 1 ELSE ws[1] + 1

\* _subscribe_inst after _ensure_ws has returned: the two early returns, else
\* the call of _ws.subscribe, which the task awaits.
AfterEnsure(c, haveWs, connected) ==
    IF ~haveWs \/ ~connected THEN "done"
    ELSE IF wobj[c].inst_id \in subscribed THEN "done"
    ELSE "subscribing"

\* _ensure_ws without the second look at _ws_connected under the lock.
EnsureLocked_NoRecheck(c) ==
    /\ ws_lock' = c
    /\ ws' = <<NewWs>>
    /\ task' = [task EXCEPT ![c] = "connecting"]

\* _ensure_ws inside `async with self._ws_lock`, the lock just taken by c: the
\* second look at _ws_connected, else a new connection whose start() is awaited.
EnsureLocked(c) ==
    IF ws_connected
    THEN /\ ws_lock' = 0
         /\ task' = [task EXCEPT ![c] = AfterEnsure(c, ws # <<>>, TRUE)]
         /\ UNCHANGED ws
    ELSE /\ ws_lock' = c
         /\ ws' = <<NewWs>>
         /\ task' = [task EXCEPT ![c] = "connecting"]

\* A _subscribe_inst task runs for the first time: _ensure_ws up to its first
\* suspension (the lock, or start()), or through to _ws.subscribe.
FeedStart(c) ==
    /\ task[c] = "start"
    /\ IF ws_connected \/ ~wsAvailable
       THEN /\ task' = [task EXCEPT ![c] = AfterEnsure(c, ws # <<>>, ws_connected)]
            /\ UNCHANGED <<ws, ws_lock, lock_waiters>>
       ELSE IF ws_lock = 0 /\ lock_waiters = <<>>
       THEN /\ EnsureLocked(c)
            /\ UNCHANGED lock_waiters
       ELSE /\ lock_waiters' = Append(lock_waiters, c)
            /\ task' = [task EXCEPT ![c] = "lock_wait"]
            /\ UNCHANGED <<ws, ws_lock>>
    /\ UNCHANGED <<wsAvailable, event, flow, ws_connected, ws_started, watchers,
                   wobj, ncalls, subscribed, sub_sent, inbox, last_trigger,
                   nonMgrVars>>

\* The first waiter of the released lock resumes inside the `async with`.
FeedLocked(c) ==
    /\ task[c] = "lock_wait"
    /\ ws_lock = 0
    /\ lock_waiters # <<>>
    /\ Head(lock_waiters) = c
    /\ lock_waiters' = Tail(lock_waiters)
    /\ EnsureLocked(c)
    /\ UNCHANGED <<wsAvailable, event, flow, ws_connected, ws_started, watchers,
                   wobj, ncalls, subscribed, sub_sent, inbox, last_trigger,
                   nonMgrVars>>

\* A connect that keeps the lock when start() raises.
FeedConnect_KeepLock(c, ok) ==
    /\ task[c] = "connecting"
    /\ IF ok
       THEN /\ ws_lock' = 0
            /\ ws_connected' = TRUE
            /\ ws_started' = ws_started \cup {ws[1]}
            /\ task' = [task EXCEPT ![c] = AfterEnsure(c, TRUE, TRUE)]
       ELSE /\ task' = [task EXCEPT ![c] = "connect_failed"]
            /\ UNCHANGED <<ws_lock, ws_connected, ws_started>>
    /\ UNCHANGED <<wsAvailable, event, flow, ws, lock_waiters, watchers, wobj,
                   ncalls, subscribed, sub_sent, inbox, last_trigger,
                   nonMgrVars>>

\* `await self._ws.start()` ends: on success the connection is marked
\* connected, the lock is released and _subscribe_inst goes on; when it raises
\* the lock is released and the task ends with the exception.
FeedConnect(c, ok) ==
    /\ task[c] = "connecting"
    /\ ws_lock' = 0
    /\ IF ok
       THEN /\ ws_connected' = TRUE
            /\ ws_started' = ws_started \cup {ws[1]}
            /\ task' = [task EXCEPT ![c] = AfterEnsure(c, TRUE, TRUE)]
       ELSE /\ task' = [task EXCEPT ![c] = "connect_failed"]
            /\ UNCHANGED <<ws_connected, ws_started>>
    /\ UNCHANGED <<wsAvailable, event, flow, ws, lock_waiters, watchers, wobj,
                   ncalls, subscribed, sub_sent, inbox, last_trigger,
                   nonMgrVars>>

\* A _subscribed that holds the latest instrument only.
FeedSubscribed_Replace(c, ok) ==
    /\ task[c] = "subscribing"
    /\ IF ok
       THEN /\ sub_sent' = [sub_sent EXCEPT ![wobj[c].inst_id] = @ + 1]
            /\ subscribed' = {wobj[c].inst_id}
            /\ task' = [task EXCEPT ![c] = "done"]
       ELSE /\ task' = [task EXCEPT ![c] = "subscribe_failed"]
            /\ UNCHANGED <<sub_sent, subscribed>>
    /\ UNCHANGED <<wsAvailable, event, flow, ws, ws_connected, ws_lock,
                   lock_waiters, ws_started, watchers, wobj, ncalls, inbox,
                   last_trigger,
                   nonMgrVars>>

\* `await self._ws.subscribe(args, callback=_callback)` ends: the request has
\* gone to the feed and the instrument is recorded, or the call raised.
FeedSubscribed(c, ok) ==
    /\ task[c] = "subscribing"
    /\ IF ok
       THEN /\ sub_sent' = [sub_sent EXCEPT ![wobj[c].inst_id] = @ + 1]
            /\ subscribed' = subscribed \cup {wobj[c].inst_id}
            /\ task' = [task EXCEPT ![c] = "done"]
       ELSE /\ task' = [task EXCEPT ![c] = "subscribe_failed"]
            /\ UNCHANGED <<sub_sent, subscribed>>
    /\ UNCHANGED <<wsAvailable, event, flow, ws, ws_connected, ws_lock,
                   lock_waiters, ws_started, watchers, wobj, ncalls, inbox,
                   last_trigger,
                   nonMgrVars>>

\* ------------------------------------------------------------------- ticks
\* A message of the feed: what came over the wire ("dict": a dict, "json": a
\* string holding the JSON of a dict, "list": the JSON of a list, "text": a
\* string that is not JSON), whether its data list has a tick, the tick's
\* instId ("": none), the key that holds its price ("last", "px", "none":
\* neither, "text": a text that is no number) and the price.
Message(wire, data, inst, price, last) ==
    [wire |-> wire, data |-> data, instId |-> inst, price |-> price,
     last |-> last]

\* The ticker message of an instrument as the feed pushes it.
Ticker(inst, price) == Message("dict", "tick", inst, "last", price)

\* The other messages of the feed: a ticker as a JSON string, a ticker that
\* holds its price under px, and the messages _handle_message gives up on.
OtherMessages ==
    {Message("json", "tick", "BTC-USDT-SWAP", "last", 3),
     Message("dict", "tick", "BTC-USDT-SWAP", "px", 3),
     Message("text", "tick", "BTC-USDT-SWAP", "last", 3),
     Message("list", "tick", "BTC-USDT-SWAP", "last", 3),
     Message("dict", "empty", "BTC-USDT-SWAP", "last", 3),
     Message("json", "empty", "BTC-USDT-SWAP", "last", 3),
     Message("dict", "tick", "", "last", 3),
     Message("dict", "tick", "BTC-USDT-SWAP", "none", 3),
     Message("dict", "tick", "BTC-USDT-SWAP", "text", 3)}

\* A start that takes any price field for a number.
ParseTick_AnyPrice(m) ==
    IF m.wire = "text" THEN <<>>
    ELSE IF m.wire = "list" THEN <<>>
    ELSE IF m.data = "empty" THEN <<>>
    ELSE IF m.instId = "" THEN <<>>
    ELSE <<[instId |-> m.instId, last_price |-> m.last]>>

\* The start of _handle_message: the tick's instId and price as <<tick>>, or
\* <<>> when the handler returns before its loop.
ParseTick(m) ==
    IF m.wire = "text" THEN <<>>
    ELSE IF m.wire = "list" THEN <<>>
    ELSE IF m.data = "empty" THEN <<>>
    ELSE IF m.instId = "" THEN <<>>
    ELSE IF m.price \in {"none", "text"} THEN <<>>
    ELSE <<[instId |-> m.instId, last_price |-> m.last]>>

\* _callback: the feed pushes a ticker message of a subscribed instrument and
\* a _handle_message task is created for it.
TickArrive(inst, price) ==
    /\ sub_sent[inst] > 0
    /\ Len(inbox) < MaxPending
    /\ inbox' = Append(inbox, Ticker(inst, price))
    /\ UNCHANGED <<wsAvailable, event, flow, ws, ws_connected, ws_lock,
                   lock_waiters, ws_started, watchers, wobj, ncalls, task,
                   subscribed, sub_sent, last_trigger,
                   nonMgrVars>>

\* _callback for any other message of the feed: the callback exists once a
\* subscribe request has gone out.
FeedMessage(m) ==
    /\ \E i \in Insts : sub_sent[i] > 0
    /\ Len(inbox) < MaxPending
    /\ inbox' = Append(inbox, m)
    /\ UNCHANGED <<wsAvailable, event, flow, ws, ws_connected, ws_lock,
                   lock_waiters, ws_started, watchers, wobj, ncalls, task,
                   subscribed, sub_sent, last_trigger,
                   nonMgrVars>>

\* A predicate that every price satisfies.
Hit_Any(direction, target, tol, last_price) ==
    direction \in {"above", "below"}

\* The predicate with the tolerance left out.
Hit_NoTolerance(direction, target, tol, last_price) ==
    IF direction = "above" THEN last_price >= target
    ELSE IF direction = "below" THEN last_price <= target
    ELSE FALSE

\* The trigger predicate of the loop of _handle_message; a watcher of any
\* other direction is skipped and so not hit.
Hit(direction, target, tol, last_price) ==
    IF direction = "above" THEN last_price >= target - tol
    ELSE IF direction = "below" THEN last_price <= target + tol
    ELSE FALSE

\* The loop's pass with a hit watcher kept in `remaining`.
EvalWatcher_Keep(acc, c, inst, last_price) ==
    LET w == acc.objs[c] IN
    IF w.direction \notin {"above", "below"} THEN acc
    ELSE IF Hit(w.direction, w.target_price, w.tolerance, last_price)
    THEN [remaining |-> Append(acc.remaining, c),
          objs |-> [acc.objs EXCEPT ![c].status = "triggered",
                                    ![c].last_price = <<last_price>>],
          trig |-> <<[inst_id |-> inst, last_price |-> last_price,
                      target_price |-> w.target_price,
                      direction |-> w.direction, mode |-> "websocket",
                      status |-> "triggered"]>>,
          fired |-> TRUE]
    ELSE [acc EXCEPT !.remaining = Append(@, c)]

\* The loop's pass with a watcher that is not hit left out of `remaining`.
EvalWatcher_Drop(acc, c, inst, last_price) ==
    LET w == acc.objs[c] IN
    IF w.direction \notin {"above", "below"} THEN acc
    ELSE IF Hit(w.direction, w.target_price, w.tolerance, last_price)
    THEN [remaining |-> acc.remaining,
          objs |-> [acc.objs EXCEPT ![c].status = "triggered",
                                    ![c].last_price = <<last_price>>],
          trig |-> <<[inst_id |-> inst, last_price |-> last_price,
                      target_price |-> w.target_price,
                      direction |-> w.direction, mode |-> "websocket",
                      status |-> "triggered"]>>,
          fired |-> TRUE]
    ELSE acc

\* The loop's pass that stops triggering after the first hit.
EvalWatcher_FirstOnly(acc, c, inst, last_price) ==
    LET w == acc.objs[c] IN
    IF w.direction \notin {"above", "below"} THEN acc
    ELSE IF ~acc.fired
            /\ Hit(w.direction, w.target_price, w.tolerance, last_price)
    THEN [remaining |-> acc.remaining,
          objs |-> [acc.objs EXCEPT ![c].status = "triggered",
                                    ![c].last_price = <<last_price>>],
          trig |-> <<[inst_id |-> inst, last_price |-> last_price,
                      target_price |-> w.target_price,
                      direction |-> w.direction, mode |-> "websocket",
                      status |-> "triggered"]>>,
          fired |-> TRUE]
    ELSE [acc EXCEPT !.remaining = Append(@, c)]

\* The loop's pass without the call of _trigger.
EvalWatcher_NoTrigger(acc, c, inst, last_price) ==
    LET w == acc.objs[c] IN
    IF w.direction \notin {"above", "below"} THEN acc
    ELSE IF Hit(w.direction, w.target_price, w.tolerance, last_price)
    THEN [remaining |-> acc.remaining,
          objs |-> [acc.objs EXCEPT ![c].status = "triggered",
                                    ![c].last_price = <<last_price>>],
          trig |-> <<[inst_id |-> inst, last_price |-> last_price,
                      target_price |-> w.target_price,
                      direction |-> w.direction, mode |-> "websocket",
                      status |-> "triggered"]>>,
          fired |-> acc.fired]
    ELSE [acc EXCEPT !.remaining = Append(@, c)]

\* A pass that keeps a watcher of another direction in the list.
EvalWatcher_KeepOther(acc, c, inst, last_price) ==
    LET w == acc.objs[c] IN
    IF w.direction \notin {"above", "below"}
    THEN [acc EXCEPT !.remaining = Append(@, c)]
    ELSE IF Hit(w.direction, w.target_price, w.tolerance, last_price)
    THEN [remaining |-> acc.remaining,
          objs |-> [acc.objs EXCEPT ![c].status = "triggered",
                                    ![c].last_price = <<last_price>>],
          trig |-> <<[inst_id |-> inst, last_price |-> last_price,
                      target_price |-> w.target_price,
                      direction |-> w.direction, mode |-> "websocket",
                      status |-> "triggered"]>>,
          fired |-> TRUE]
    ELSE [acc EXCEPT !.remaining = Append(@, c)]

\* One pass of the loop of _handle_message over watcher c; acc holds the list
\* `remaining`, the watcher dicts, _last_trigger and whether _trigger ran.
EvalWatcher(acc, c, inst, last_price) ==
    LET w == acc.objs[c] IN
    IF w.direction \notin {"above", "below"} THEN acc
    ELSE IF Hit(w.direction, w.target_price, w.tolerance, last_price)
    THEN [remaining |-> acc.remaining,
          objs |-> [acc.objs EXCEPT ![c].status = "triggered",
                                    ![c].last_price = <<last_price>>],
          trig |-> <<[inst_id |-> inst, last_price |-> last_price,
                      target_price |-> w.target_price,
                      direction |-> w.direction, mode |-> "websocket",
                      status |-> "triggered"]>>,
          fired |-> TRUE]
    ELSE [acc EXCEPT !.remaining = Append(@, c)]

RECURSIVE ScanWatchers(_, _, _, _)
ScanWatchers(list, acc, inst, last_price) ==
    IF list = <<>> THEN acc
    ELSE ScanWatchers(Tail(list), EvalWatcher(acc, Head(list), inst, last_price),
                      inst, last_price)

\* _handle_message: no await inside, so the whole evaluation is one step of
\* the loop.
HandleMessage ==
    /\ inbox # <<>>
    /\ IF ParseTick(Head(inbox)) = <<>>
       THEN UNCHANGED <<watchers, wobj, last_trigger, event, flow>>
       ELSE LET m == ParseTick(Head(inbox))[1]
                r == ScanWatchers(watchers[m.instId],
                                  [remaining |-> <<>>, objs |-> wobj,
                                   trig |-> last_trigger, fired |-> FALSE],
                                  m.instId, m.last_price)
            IN /\ watchers' = [watchers EXCEPT ![m.instId] = r.remaining]
               /\ wobj' = r.objs
               /\ last_trigger' = r.trig
               /\ event' = (event \/ r.fired)
               /\ flow' = IF r.fired THEN Trigger_flow(flow) ELSE flow
    /\ inbox' = Tail(inbox)
    /\ UNCHANGED <<wsAvailable, ws, ws_connected, ws_lock, lock_waiters,
                   ws_started, ncalls, task, subscribed, sub_sent,
                   nonMgrVars>>

\* ----------------------------------------------------------------- polling
\* The expiry test with > for >=.
Exhausted_Late(checks, max_checks) ==
    max_checks # <<>> /\ checks > max_checks[1]

\* The expiry test with an absent max_checks read as 1.
Exhausted_Unset(checks, max_checks) ==
    checks >= (IF max_checks = <<>> THEN 1 ELSE max_checks[1])

\* `max_checks is not None and checks >= max_checks`
Exhausted(checks, max_checks) ==
    max_checks # <<>> /\ checks >= max_checks[1]

\* The polling predicate without the equality.
PollHit_Strict(direction, target_price, tolerance, last_price) ==
    IF direction = "above" THEN last_price > target_price - tolerance
    ELSE IF direction = "below" THEN last_price < target_price + tolerance
    ELSE FALSE

\* `hit` of _poll_price; for any other direction the loop raises ValueError
\* with hit still False.
PollHit(direction, target_price, tolerance, last_price) ==
    IF direction = "above" THEN last_price >= target_price - tolerance
    ELSE IF direction = "below" THEN last_price <= target_price + tolerance
    ELSE FALSE

\* One iteration of the loop of _poll_price, from the price sample to the
\* return or the sleep: _get_current_price is a synchronous call.
PollSample(c, last_price) ==
    LET w == wobj[c] IN
    /\ task[c] = "poll"
    /\ w.samples < MaxPolls
    /\ IF w.direction \notin {"above", "below"}
       THEN /\ task' = [task EXCEPT ![c] = "failed"]
            /\ wobj' = [wobj EXCEPT ![c].samples = @ + 1]
            /\ UNCHANGED <<last_trigger, event, flow>>
       ELSE IF PollHit(w.direction, w.target_price, w.tolerance, last_price)
       THEN /\ last_trigger' = <<[inst_id |-> w.inst_id, last_price |-> last_price,
                                  target_price |-> w.target_price,
                                  direction |-> w.direction, mode |-> "polling",
                                  status |-> "triggered"]>>
            /\ event' = TRUE
            /\ flow' = Trigger_flow(flow)
            /\ wobj' = [wobj EXCEPT ![c].samples = @ + 1,
                                    ![c].status = "triggered",
                                    ![c].last_price = <<last_price>>]
            /\ task' = [task EXCEPT ![c] = "done"]
       ELSE IF Exhausted(w.checks + 1, w.max_checks)
       THEN /\ last_trigger' = <<[inst_id |-> w.inst_id, last_price |-> last_price,
                                  target_price |-> w.target_price,
                                  direction |-> w.direction, mode |-> "polling",
                                  status |-> "expired"]>>
            /\ wobj' = [wobj EXCEPT ![c].samples = @ + 1,
                                    ![c].checks = @ + 1,
                                    ![c].status = "expired",
                                    ![c].last_price = <<last_price>>]
            /\ task' = [task EXCEPT ![c] = "done"]
            /\ UNCHANGED <<event, flow>>
       ELSE /\ wobj' = [wobj EXCEPT ![c].samples = @ + 1, ![c].checks = @ + 1]
            /\ UNCHANGED <<task, last_trigger, event, flow>>
    /\ UNCHANGED <<wsAvailable, ws, ws_connected, ws_lock, lock_waiters,
                   ws_started, watchers, ncalls, subscribed, sub_sent, inbox,
                   nonMgrVars>>

\* _get_current_price raises (no ticker, a non-zero code): the polling task
\* ends with the exception.
PollFail(c) ==
    /\ task[c] = "poll"
    /\ task' = [task EXCEPT ![c] = "failed"]
    /\ UNCHANGED <<wsAvailable, event, flow, ws, ws_connected, ws_lock,
                   lock_waiters, ws_started, watchers, wobj, ncalls, subscribed,
                   sub_sent, inbox, last_trigger,
                   nonMgrVars>>

\* ---------------------------------------------------------------- the flow
\* wait_event: asyncio.Event.wait returns at once when the flag is set, else
\* the flow is suspended on a future.
AwaitWake ==
    /\ flow = "idle"
    /\ flow' = IF event THEN "resumed_now" ELSE "waiting"
    /\ UNCHANGED <<wsAvailable, event, ws, ws_connected, ws_lock, lock_waiters,
                   ws_started, watchers, wobj, ncalls, task, subscribed,
                   sub_sent, inbox, last_trigger,
                   nonMgrVars>>

\* A resume that clears the flag, as an auto-reset event would.
FlowResume_AutoClear ==
    /\ flow = "woken"
    /\ flow' = "resumed"
    /\ event' = FALSE
    /\ UNCHANGED <<wsAvailable, ws, ws_connected, ws_lock, lock_waiters,
                   ws_started, watchers, wobj, ncalls, task, subscribed,
                   sub_sent, inbox, last_trigger, nonMgrVars>>

\* The loop runs the flow whose future set() resolved.
FlowResume ==
    /\ flow = "woken"
    /\ flow' = "resumed"
    /\ UNCHANGED <<wsAvailable, event, ws, ws_connected, ws_lock, lock_waiters,
                   ws_started, watchers, wobj, ncalls, task, subscribed,
                   sub_sent, inbox, last_trigger,
                   nonMgrVars>>

\* asyncio.wait_for gives up on the wait (_demo_wait_for_price).
FlowTimeout ==
    /\ flow = "waiting"
    /\ flow' = "timeout"
    /\ UNCHANGED <<wsAvailable, event, ws, ws_connected, ws_lock, lock_waiters,
                   ws_started, watchers, wobj, ncalls, task, subscribed,
                   sub_sent, inbox, last_trigger,
                   nonMgrVars>>

\* The flow has used the outcome of its wait and is ready for its next cycle.
FlowNext ==
    /\ flow \in {"resumed", "resumed_now", "timeout"}
    /\ flow' = "idle"
    /\ UNCHANGED <<wsAvailable, event, ws, ws_connected, ws_lock, lock_waiters,
                   ws_started, watchers, wobj, ncalls, task, subscribed,
                   sub_sent, inbox, last_trigger,
                   nonMgrVars>>

\* ------------------------------------------------------------ retry wrapper
RETRY_CODES == {"50001"}
MAX_RETRIES == 2
\* RETRY_DELAY = 0.3 s, in tenths of a second.
RETRY_DELAY == 3

\* Operations of the SDK clients reached through the wrapper, the status codes
\* of their responses ("nocode": a response without a code key) and payloads.
Ops == {"get_ticker", "set_leverage", "place_order"}
Codes == {"0", "50001", "51008", "nocode"}
Payloads == {"x", "y"}

InitRetry ==
    /\ r_pc = "idle"
    /\ r_op = ""
    /\ r_i = 0
    /\ r_calls = 0
    /\ r_hist = <<>>
    /\ r_last = <<>>
    /\ r_ret = <<>>
    /\ r_slept = <<>>

\* `code not in RETRY_CODES`
Retryable(code) == code \in RETRY_CODES

\* The loop over range(MAX_RETRIES).
InRange_Short(i) == i < MAX_RETRIES

\* The loop with one pass more.
InRange_Long(i) == i < MAX_RETRIES + 2

\* `for i in range(MAX_RETRIES + 1)`: i is a pass of the loop
InRange(i) == i < MAX_RETRIES + 1

\* `if i < MAX_RETRIES` before the sleep
SleepsAfter(i) == i < MAX_RETRIES

\* A delay that does not grow.
Backoff_Flat(i) == RETRY_DELAY

\* `RETRY_DELAY * (2 ** i)`
Backoff(i) == RETRY_DELAY * (2 ^ i)

\* wrapped(*args, **kwargs) is called for operation op: last_res = None, i = 0.
RetryBegin(op) ==
    /\ r_pc = "idle"
    /\ r_pc' = "call"
    /\ r_op' = op
    /\ r_i' = 0
    /\ UNCHANGED <<r_calls, r_hist, r_last, r_ret, r_slept>>
    /\ UNCHANGED nonRetryVars

\* One pass of the loop: the operation is called and answers with a response;
\* the pass ends in `return res`, in the sleep, or (last pass) in the
\* `return last_res` after the loop.
RetryAttempt(code, data) ==
    LET res == [code |-> code, data |-> data, n |-> r_calls + 1] IN
    /\ r_pc = "call"
    /\ InRange(r_i)
    /\ r_calls' = r_calls + 1
    /\ r_hist' = Append(r_hist, res)
    /\ r_last' = <<res>>
    /\ IF ~Retryable(code)
       THEN /\ r_ret' = <<res>>
            /\ r_pc' = "returned"
            /\ UNCHANGED <<r_i, r_slept>>
       ELSE IF SleepsAfter(r_i)
       THEN /\ r_slept' = Append(r_slept, Backoff(r_i))
            /\ r_pc' = "sleep"
            /\ UNCHANGED <<r_i, r_ret>>
       ELSE IF InRange(r_i + 1)
       THEN /\ r_i' = r_i + 1
            /\ UNCHANGED <<r_pc, r_ret, r_slept>>
       ELSE /\ r_i' = r_i + 1
            /\ r_ret' = <<res>>
            /\ r_pc' = "returned"
            /\ UNCHANGED r_slept
    /\ UNCHANGED r_op
    /\ UNCHANGED nonRetryVars

\* The operation raises instead of answering: wrapped() catches nothing.
RetryRaise ==
    /\ r_pc = "call"
    /\ InRange(r_i)
    /\ r_calls' = r_calls + 1
    /\ r_pc' = "raised"
    /\ UNCHANGED <<r_op, r_i, r_hist, r_last, r_ret, r_slept>>
    /\ UNCHANGED nonRetryVars

\* time.sleep returns and the loop goes to its next pass; after the last pass
\* `return last_res`.
RetryWake ==
    /\ r_pc = "sleep"
    /\ r_i' = r_i + 1
    /\ IF InRange(r_i + 1)
       THEN /\ r_pc' = "call"
            /\ UNCHANGED r_ret
       ELSE /\ r_pc' = "returned"
            /\ r_ret' = r_last
    /\ UNCHANGED <<r_op, r_calls, r_hist, r_last, r_slept>>
    /\ UNCHANGED nonRetryVars

\* ------------------------------------------------------ values and decimals
\* A value passed in or carried by a response: a number, a numeric string,
\* None (or a key that is absent or empty), or a string that is not a number.
\* Sizes, lot steps and contract values are in units of 0.0001; `digits` is
\* the number of decimal places a numeric string is written with.
Num(n) == [k |-> "num", v |-> n, digits |-> 0]
Dec(n, d) == [k |-> "numstr", v |-> n, digits |-> d]
NoneVal == [k |-> "none", v |-> 0, digits |-> 0]
TextVal == [k |-> "text", v |-> 0, digits |-> 0]

\* float(x) and int(x) on such a value: <<number>>, or <<>> when the
\* conversion raises TypeError (None) or ValueError (not a number).
ToFloat(x) == IF x.k \in {"num", "numstr"} THEN <<x.v>> ELSE <<>>

\* Largest size _quantize_size is called with, in units of 0.0001.
MaxQty == 45

QtySizes == (0 - 5)..MaxQty

\* lotSz values: absent, not a number, "0", "0.001", "0.0005", "0.0025",
\* "0.002", "0.25", "1", "2".
LotSzs == {NoneVal, TextVal, Dec(0, 0), Dec(10, 3), Dec(5, 4), Dec(25, 4),
           Dec(20, 3), Dec(2500, 2), Dec(10000, 0), Dec(20000, 0)}

\* Division rounded toward zero (ROUND_DOWN), for b > 0.
TruncDiv(a, b) == IF a >= 0 THEN a \div b ELSE 0 - ((0 - a) \div b)

\* The number of steps rounded up to the next whole step.
Multiples_RoundUp(size, step) == (size + step - 1) \div step

\* `(size_dec / step_dec).to_integral_value(rounding=ROUND_DOWN)`
Multiples(size, step) == TruncDiv(size, step)

\* A test that lets a size of zero through.
TooSmall_Negative(quantized) == quantized < 0

\* `if quantized <= 0`
TooSmall(quantized) == quantized <= 0

\* f"{quantized:.{precision}f}": quantized written with `digits` decimal
\* places, rounded half to even (quantized >= 0, digits <= 4).
FormatFixed(quantized, digits) ==
    LET u == 10 ^ (4 - digits)
        r == quantized % u
        lo == quantized - r
    IN IF 2 * r < u THEN lo
       ELSE IF 2 * r > u THEN lo + u
       ELSE IF (lo \div u) % 2 = 0 THEN lo ELSE lo + u

\* _quantize_size once _get_instrument has returned the instrument: the
\* size as it is written into the order, or the exception raised.
QuantizeSize(lot_sz, base_size) ==
    IF lot_sz.k = "none"
    THEN [raised |-> "RuntimeError", sz |-> 0, digits |-> 0]
    ELSE IF lot_sz.k = "text"
    THEN [raised |-> "RuntimeError", sz |-> 0, digits |-> 0]
    ELSE IF lot_sz.v <= 0
    THEN [raised |-> "RuntimeError", sz |-> 0, digits |-> 0]
    ELSE LET quantized == Multiples(base_size, lot_sz.v) * lot_sz.v IN
         IF TooSmall(quantized)
         THEN [raised |-> "ValueError", sz |-> 0, digits |-> 0]
         ELSE [raised |-> "", sz |-> FormatFixed(quantized, lot_sz.digits),
               digits |-> lot_sz.digits]

InitQuant ==
    /\ q_pc = "idle"
    /\ q_step = NoneVal
    /\ q_size = 0
    /\ q_ret = <<>>

\* A call of _quantize_size(inst_id, base_size) from outside place_okx_order
\* (okx_client), for an instrument whose lotSz is lot_sz; one such call is
\* followed, before any other call of _quantize_size.
QuantizeSizeCall(lot_sz, base_size) ==
    LET res == QuantizeSize(lot_sz, base_size) IN
    /\ q_pc = "idle"
    /\ q_step' = lot_sz
    /\ q_size' = base_size
    /\ q_pc' = IF res.raised = "" THEN "returned" ELSE res.raised
    /\ q_ret' = IF res.raised = "" THEN <<res.sz>> ELSE <<>>
    /\ UNCHANGED nonQuantVars

\* ------------------------------------------------------ binary64 arithmetic
\* A Python float is an IEEE 754 double: a mantissa of 53 bits and a power of
\* two.  A mantissa is wider than a 32-bit integer, so a natural number is
\* held as NLimbs limbs of LimbBits bits, the least significant first.
MantissaBits == 53
LimbBits == 15
LimbBase == 32768
NLimbs == 5

LimbIds == 1..NLimbs

\* The limbs of a number below LimbBase cubed.
Wide(n) ==
    SubSeq([i \in LimbIds |->
        IF i = 1 THEN n % LimbBase
        ELSE IF i = 2 THEN (n \div LimbBase) % LimbBase
        ELSE IF i = 3 THEN n \div (LimbBase * LimbBase)
        ELSE 0], 1, NLimbs)

\* The number a wide number with two limbs stands for.
Narrow(a) == a[1] + (a[2] * LimbBase)

IsZero(a) == \A i \in LimbIds : a[i] = 0

\* 2 * a + bit
Twice(a, bit) ==
    SubSeq([i \in LimbIds |->
        ((2 * a[i]) % LimbBase)
            + (IF i = 1 THEN bit ELSE a[i - 1] \div (LimbBase \div 2))], 1, NLimbs)

\* Limb j of a, zero outside the limbs held.
Limb(a, j) == IF j \in LimbIds THEN a[j] ELSE 0

\* a \div 2^k and a * 2^k
ShiftRight(a, k) ==
    LET ls == k \div LimbBits
        bs == k % LimbBits
    IN SubSeq([i \in LimbIds |->
                 (Limb(a, i + ls) \div (2 ^ bs))
                     + ((Limb(a, i + ls + 1) % (2 ^ bs)) * (2 ^ (LimbBits - bs)))],
              1, NLimbs)

ShiftLeft(a, k) ==
    LET ls == k \div LimbBits
        bs == k % LimbBits
    IN SubSeq([i \in LimbIds |->
                 ((Limb(a, i - ls) % (2 ^ (LimbBits - bs))) * (2 ^ bs))
                     + (Limb(a, i - ls - 1) \div (2 ^ (LimbBits - bs)))],
              1, NLimbs)

\* a < b on the limbs below limb i
LessBelow(a, b, i) ==
    \E k \in 1..(i - 1) :
        a[k] < b[k] /\ \A j \in (k + 1)..(i - 1) : a[j] = b[j]

Less(a, b) == LessBelow(a, b, NLimbs + 1)

\* a - b for a >= b
Minus(a, b) ==
    SubSeq([i \in LimbIds |->
        (a[i] - b[i] - (IF LessBelow(a, b, i) THEN 1 ELSE 0) + LimbBase)
            % LimbBase], 1, NLimbs)

\* a + 1
PlusOne(a) ==
    SubSeq([i \in LimbIds |->
        IF \A j \in 1..(i - 1) : a[j] = LimbBase - 1
        THEN (a[i] + 1) % LimbBase ELSE a[i]], 1, NLimbs)

\* The carry out of limb i of a * c, for c below 2^15.
RECURSIVE TimesCarry(_, _, _)
TimesCarry(a, c, i) ==
    IF i = 0 THEN 0 ELSE ((a[i] * c) + TimesCarry(a, c, i - 1)) \div LimbBase

\* a * c
Times(a, c) ==
    SubSeq([i \in LimbIds |-> ((a[i] * c) + TimesCarry(a, c, i - 1)) % LimbBase], 1, NLimbs)

\* The number of bits of a limb and of a wide number.
LimbLen(v) == CHOOSE k \in 0..LimbBits : v < 2 ^ k /\ (k = 0 \/ v >= 2 ^ (k - 1))

BitLen(a) ==
    IF IsZero(a) THEN 0
    ELSE LET top == CHOOSE i \in LimbIds :
                        a[i] # 0 /\ \A j \in (i + 1)..NLimbs : a[j] = 0
         IN (top - 1) * LimbBits + LimbLen(a[top])

\* The value of a set of one value.  An operator evaluates an argument each
\* time it uses it; a value bound by a set is computed once.
The(S) == CHOOSE v \in S : TRUE

\* Long division, one bit of the quotient at a time: st.n more bits of the
\* quotient st.q by st.b, st.r being the remainder so far (below st.b).  A
\* remainder of zero leaves only zero bits.
DivideStep(st) ==
    LET r2 == Twice(st.r, 0) IN
    IF Less(r2, st.b)
    THEN [q |-> Twice(st.q, 0), r |-> r2, b |-> st.b, n |-> st.n - 1]
    ELSE [q |-> Twice(st.q, 1), r |-> Minus(r2, st.b), b |-> st.b,
          n |-> st.n - 1]

\* At most k of the bits that are left.
RECURSIVE DivideBits(_, _)
DivideBits(st, k) ==
    IF k = 0 \/ st.n = 0 THEN st
    ELSE The({DivideBits(next, k - 1) : next \in {DivideStep(st)}})

\* All of them, a limb's worth at a time.
RECURSIVE DivideOn(_)
DivideOn(st) ==
    IF st.n = 0 \/ IsZero(st.r)
    THEN [q |-> ShiftLeft(st.q, st.n), r |-> st.r]
    ELSE The({DivideOn(next) : next \in {DivideBits(st, LimbBits)}})

\* a and b shifted to the same length, so that their quotient lies between
\* 1/2 and 2, and the power of two taken out of it.
Aligned(a, b) ==
    LET la == BitLen(a)
        lb == BitLen(b)
    IN [a |-> IF la < lb THEN ShiftLeft(a, lb - la) ELSE a,
        b |-> IF lb < la THEN ShiftLeft(b, la - lb) ELSE b,
        shift |-> la - lb]

\* The quotient of al.a by al.b carried to two bits more than the mantissa
\* holds, and its remainder.
Quotient(al) ==
    IF Less(al.a, al.b)
    THEN DivideOn([q |-> Wide(0), r |-> al.a, b |-> al.b,
                   n |-> MantissaBits + 2])
    ELSE DivideOn([q |-> Wide(1), r |-> Minus(al.a, al.b), b |-> al.b,
                   n |-> MantissaBits + 2])

\* The quotient d rounded to the nearest double, ties to even: the mantissa
\* m of MantissaBits bits and the exponent e of the double m * 2^e.
Rounded(d, shift) ==
    LET drop == BitLen(d.q) - MantissaBits
        m == ShiftRight(d.q, drop)
        low == d.q[1] % (2 ^ drop)
        half == 2 ^ (drop - 1)
        up == \/ low > half
              \/ low = half /\ ~IsZero(d.r)
              \/ low = half /\ IsZero(d.r) /\ m[1] % 2 = 1
        e == drop - (MantissaBits + 2) + shift
    IN IF ~up THEN [m |-> m, e |-> e]
       ELSE IF BitLen(PlusOne(m)) > MantissaBits
       THEN [m |-> ShiftRight(PlusOne(m), 1), e |-> e + 1]
       ELSE [m |-> PlusOne(m), e |-> e]

\* a / b as a double, for a, b > 0 of at most MantissaBits bits.
RoundDiv(a, b) ==
    The({The({Rounded(d, al.shift) : d \in {Quotient(al)}}) :
            al \in {Aligned(a, b)}})

\* float(n) for a whole number n, and float(text) for the text of v / 10000.
FloatOf(n) == RoundDiv(Wide(n), Wide(1))

FloatOfUnits(v) == RoundDiv(Wide(v), Wide(10000))

\* x / y on doubles
FloatDiv(x, y) ==
    The({The({[m |-> r.m, e |-> r.e + xv.e - yv.e] :
                 r \in {RoundDiv(xv.m, yv.m)}}) :
            xv \in {x}, yv \in {y}})

\* Decimal(str(x)) cut to four decimal places, in units of 0.0001: str gives
\* the shortest text that reads back as x, so it is the text of (f + 1) /
\* 10000 when that reads back as x, and else lies between f / 10000 and it,
\* f being the whole part of x * 10000.
UnitsOf(x) ==
    LET f == Narrow(ShiftRight(Times(x.m, 10000), 0 - x.e)) IN
    IF FloatOfUnits(f + 1) = x THEN f + 1 ELSE f

\* ------------------------------------------------------- place_okx_order
PosModes == {"long_short_mode", "net_mode"}

\* The arguments of place_okx_order (td_mode keeps its default).  The ids
\* that end with "-SWAP" are those of Insts.
Intents ==
    [instId : {"BTC-USDT-SWAP", "BTC-USDT"},
     side : {"buy", "sell", "hold"},
     posSide : {"long", "short", "net", "both"},
     usdt_amount : {Num(0), Num(3), TextVal},
     limit_px : {Num(0), Num(2)},
     take_profit : {Num(5), NoneVal},
     stop_loss : {Num(1), NoneVal},
     leverage : {Num(0), Num(1), Num(2), TextVal}]

NoIntent == [instId |-> "", side |-> "", posSide |-> "", usdt_amount |-> NoneVal,
             limit_px |-> NoneVal, take_profit |-> NoneVal,
             stop_loss |-> NoneVal, leverage |-> NoneVal]

NoErr == [type |-> "", at |-> "", code |-> ""]

\* What a call of an SDK method can end in: the codes of a response, or an
\* exception of the SDK ("raised").
ReplyCodes == Codes \cup {"raised"}

\* Responses of get_account_balance: the details with the availBal of USDT
\* (NoneVal: no USDT item, or an empty availBal), an error response with an
\* empty data list or without one, or an exception.
BalanceResponses ==
    {[code |-> "0", data |-> "details", availBal |-> b] :
        b \in {Dec(2, 0), Dec(3, 0), NoneVal, TextVal}}
    \cup {[code |-> c, data |-> d, availBal |-> NoneVal] :
            c \in {"50001", "51008"}, d \in {"empty", "absent"}}
    \cup {[code |-> "raised", data |-> "empty", availBal |-> NoneVal]}

\* Responses of get_account_config: the account's configuration, an error
\* response with an empty data list, or an exception.
ConfigResponses ==
    {[code |-> "0", data |-> "config"]}
    \cup {[code |-> c, data |-> "empty"] : c \in {"50001", "51008", "raised"}}

\* ctVal values: absent, not a number, "0", "1", "0.5".
CtVals == {NoneVal, TextVal, Dec(0, 0), Dec(10000, 0), Dec(5000, 1)}

\* lotSz values of the instruments place_okx_order is given: absent, not a
\* number, "0", "0.25", "1", "2".
InstLotSzs == {NoneVal, TextVal, Dec(0, 0), Dec(2500, 2), Dec(10000, 0),
               Dec(20000, 0)}

\* Responses of get_instruments: an instrument with its ctVal and lotSz, an
\* empty data list, or an exception.
InstrumentResponses ==
    {[code |-> c, data |-> "instrument", ctVal |-> v, lotSz |-> l] :
        c \in {"0", "nocode"}, v \in CtVals, l \in InstLotSzs}
    \cup {[code |-> c, data |-> "empty", ctVal |-> NoneVal, lotSz |-> NoneVal] :
            c \in {"0", "50001", "51008", "raised"}}

\* Responses of place_order: the order's entry with its sCode ("none": no
\* sCode key), an empty data list, or an exception.
PlaceResponses ==
    {[code |-> c, data |-> "order", sCode |-> sc] :
        c \in Codes, sc \in {"0", "51008", "none"}}
    \cup {[code |-> c, data |-> "empty", sCode |-> "none"] : c \in ReplyCodes}

InitOrder ==
    /\ acct_mode = "net_mode"
    /\ acct_lever = <<>>
    /\ o_pc = "idle"
    /\ o_intent = NoIntent
    /\ o_calls = <<>>
    /\ o_pos_mode = "None"
    /\ o_ct_val_f = 0
    /\ o_contracts = 0
    /\ o_payload = <<>>
    /\ o_result = <<>>
    /\ o_err = NoErr

\* The checks without the one of the leverage.
Validate_NoLeverage(intent) ==
    IF intent.instId \notin Insts THEN "instId"
    ELSE IF intent.side \notin {"buy", "sell"} THEN "side"
    ELSE IF intent.posSide \notin {"long", "short", "net"} THEN "posSide"
    ELSE IF \/ ToFloat(intent.usdt_amount) = <<>>
            \/ ToFloat(intent.limit_px) = <<>>
            \/ ToFloat(intent.take_profit) = <<>>
            \/ ToFloat(intent.stop_loss) = <<>>
            \/ ToFloat(intent.leverage) = <<>> THEN "number"
    ELSE IF ToFloat(intent.usdt_amount)[1] <= 0
            \/ ToFloat(intent.limit_px)[1] <= 0 THEN "positive"
    ELSE ""

\* The checks with one stop level allowed to be None.
Validate_OneStop(intent) ==
    IF intent.instId \notin Insts THEN "instId"
    ELSE IF intent.side \notin {"buy", "sell"} THEN "side"
    ELSE IF intent.posSide \notin {"long", "short", "net"} THEN "posSide"
    ELSE IF \/ ToFloat(intent.usdt_amount) = <<>>
            \/ ToFloat(intent.limit_px) = <<>>
            \/ intent.take_profit.k = "text"
            \/ intent.stop_loss.k = "text"
            \/ ToFloat(intent.leverage) = <<>> THEN "number"
    ELSE IF ToFloat(intent.usdt_amount)[1] <= 0
            \/ ToFloat(intent.limit_px)[1] <= 0 THEN "positive"
    ELSE IF intent.take_profit.k = "none" /\ intent.stop_loss.k = "none"
    THEN "stops"
    ELSE IF ToFloat(intent.leverage)[1] <= 0 THEN "leverage"
    ELSE ""

\* The checks of the arguments, in the order of the code: "" when they pass,
\* else the check that raises ValueError.
Validate(intent) ==
    IF intent.instId \notin Insts THEN "instId"
    ELSE IF intent.side \notin {"buy", "sell"} THEN "side"
    ELSE IF intent.posSide \notin {"long", "short", "net"} THEN "posSide"
    ELSE IF \/ ToFloat(intent.usdt_amount) = <<>>
            \/ ToFloat(intent.limit_px) = <<>>
            \/ ToFloat(intent.take_profit) = <<>>
            \/ ToFloat(intent.stop_loss) = <<>>
            \/ ToFloat(intent.leverage) = <<>> THEN "number"
    ELSE IF ToFloat(intent.usdt_amount)[1] <= 0
            \/ ToFloat(intent.limit_px)[1] <= 0 THEN "positive"
    ELSE IF ToFloat(intent.leverage)[1] <= 0 THEN "leverage"
    ELSE ""

\* `"long_short_mode" if posSide in {"long", "short"} else "net_mode"`
DesiredPosMode(posSide) ==
    IF posSide \in {"long", "short"} THEN "long_short_mode" ELSE "net_mode"

\* usdt_available as the loop over the details computes it; <<>> when
\* `balance.get("data", [{}])[0]` raises IndexError.
UsdtAvailable(res) ==
    IF res.data = "empty" THEN <<>>
    ELSE IF res.data = "absent" THEN <<0>>
    ELSE IF ToFloat(res.availBal) = <<>> THEN <<0>>
    ELSE ToFloat(res.availBal)

\* The balance test, one unit too lenient.
Insufficient_Lenient(usdt_available, usdt_amount) ==
    usdt_available + 1 < usdt_amount

\* `if usdt_available < usdt_amount`
Insufficient(usdt_available, usdt_amount) == usdt_available < usdt_amount

\* No code counts as a rejection.
Rejected_None(code) == FALSE

\* `code not in [None, "0"]`
Rejected(code) == code \notin {"nocode", "0"}

\* No sCode counts as a rejection.
OrderRejected_None(sCode) == FALSE

\* `order_data.get("sCode") not in ["0", None]`
OrderRejected(sCode) == sCode \notin {"0", "none"}

\* _get_instrument on a response: "" when it returns data[0], else the
\* exception it ends with.
GetInstrument(res) ==
    IF res.code = "raised" THEN "SDK"
    ELSE IF Rejected(res.code) THEN "RuntimeError"
    ELSE IF res.data = "empty" THEN "RuntimeError"
    ELSE ""

\* Arguments and instruments for the size of an order: amounts, prices and
\* contract values (ctVal "1", "0.5", "0.1") whose quotients a double holds
\* exactly, and ones whose quotients it does not.
SizingIntents ==
    [instId : {"BTC-USDT-SWAP"}, side : {"buy"}, posSide : {"net"},
     usdt_amount : {Num(3)}, limit_px : {Num(2), Num(10)},
     take_profit : {Num(5)}, stop_loss : {Num(1)},
     leverage : {Num(1), Num(2)}]

SizingResponses ==
    {[code |-> "0", data |-> "instrument", ctVal |-> v, lotSz |-> l] :
        v \in {Dec(10000, 0), Dec(5000, 1), Dec(1000, 1)},
        l \in {Dec(2500, 2), Dec(10000, 0), Dec(20000, 0)}}

\* contracts = usdt_amount * leverage / limit_px / ct_val_f as the doubles
\* compute it and as _quantize_size reads it (Decimal(str(base_size))), in
\* units of 0.0001; ct_val in the same units.  usdt_amount * leverage is a
\* whole number, which a double holds exactly.
FloatContracts(notional, limit_px, ct_val) ==
    The({UnitsOf(contracts) :
            contracts \in {FloatDiv(base_size, FloatOfUnits(ct_val)) :
                base_size \in {FloatDiv(FloatOf(notional),
                                        FloatOf(limit_px))}}})

\* The contracts of every notional, price and contract value of the model,
\* computed once.
ContractsTable ==
    {<<n, p, c, FloatContracts(n, p, c)>> :
        n \in {i.usdt_amount.v * i.leverage.v :
                  i \in {j \in Intents \cup SizingIntents : Validate(j) = ""}},
        p \in {i.limit_px.v :
                  i \in {j \in Intents \cup SizingIntents : Validate(j) = ""}},
        c \in {r.ctVal.v :
                  r \in {x \in InstrumentResponses \cup SizingResponses :
                            x.ctVal.k = "numstr" /\ x.ctVal.v > 0}}}

Contracts(intent, ct_val) ==
    LET row == CHOOSE t \in ContractsTable :
                   /\ t[1] = intent.usdt_amount.v * intent.leverage.v
                   /\ t[2] = intent.limit_px.v
                   /\ t[3] = ct_val
    IN row[4]

\* place_okx_order raises.
OrderFails(type, at, code) ==
    /\ o_pc' = "failed"
    /\ o_err' = [type |-> type, at |-> at, code |-> code]

\* The position mode of the account is changed from elsewhere while no
\* order is being placed.
AccountMode(m) ==
    /\ o_pc = "idle"
    /\ m # acct_mode
    /\ acct_mode' = m
    /\ UNCHANGED <<acct_lever, o_pc, o_intent, o_calls, o_pos_mode, o_ct_val_f, o_contracts,
                   o_payload, o_result, o_err>>
    /\ UNCHANGED nonOrderVars

\* place_okx_order is called: the checks of the arguments, then the call of
\* get_account_balance.
Submit(intent) ==
    /\ o_pc = "idle"
    /\ o_intent' = intent
    /\ IF Validate(intent) # ""
       THEN /\ OrderFails("ValueError", Validate(intent), "")
            /\ UNCHANGED o_calls
       ELSE /\ o_pc' = "balance"
            /\ o_calls' = Append(o_calls, "get_account_balance")
            /\ UNCHANGED o_err
    /\ UNCHANGED <<acct_mode, acct_lever, o_pos_mode, o_ct_val_f, o_contracts, o_payload,
                   o_result>>
    /\ UNCHANGED nonOrderVars

\* get_account_balance has answered: the balance check, then the call of
\* get_account_config.
BalanceReply(res) ==
    /\ o_pc = "balance"
    /\ IF res.code = "raised"
       THEN /\ OrderFails("SDK", "get_account_balance", "")
            /\ UNCHANGED o_calls
       ELSE IF UsdtAvailable(res) = <<>>
       THEN /\ OrderFails("IndexError", "get_account_balance", res.code)
            /\ UNCHANGED o_calls
       ELSE IF Insufficient(UsdtAvailable(res)[1],
                            ToFloat(o_intent.usdt_amount)[1])
       THEN /\ OrderFails("ValueError", "balance", "")
            /\ UNCHANGED o_calls
       ELSE /\ o_pc' = "config"
            /\ o_calls' = Append(o_calls, "get_account_config")
            /\ UNCHANGED o_err
    /\ UNCHANGED <<acct_mode, acct_lever, o_intent, o_pos_mode, o_ct_val_f, o_contracts,
                   o_payload, o_result>>
    /\ UNCHANGED nonOrderVars

\* The step after get_account_config without the switch of the mode.
ConfigReply_NoSwitch(res) ==
    LET pos_mode == IF res.data = "config" THEN acct_mode ELSE "None" IN
    /\ o_pc = "config"
    /\ o_pos_mode' = pos_mode
    /\ o_pc' = "leverage"
    /\ o_calls' = Append(o_calls, "set_leverage")
    /\ UNCHANGED <<acct_mode, acct_lever, o_intent, o_ct_val_f, o_contracts, o_payload,
                   o_result, o_err>>
    /\ UNCHANGED nonOrderVars

\* get_account_config has answered or raised (any exception leaves pos_mode
\* None): the comparison with the desired mode, then the call of
\* set_position_mode or of set_leverage.
ConfigReply(res) ==
    LET pos_mode == IF res.data = "config" THEN acct_mode ELSE "None" IN
    /\ o_pc = "config"
    /\ o_pos_mode' = pos_mode
    /\ IF pos_mode # DesiredPosMode(o_intent.posSide)
       THEN /\ o_pc' = "switch"
            /\ o_calls' = Append(o_calls, "set_position_mode")
       ELSE /\ o_pc' = "leverage"
            /\ o_calls' = Append(o_calls, "set_leverage")
    /\ UNCHANGED <<acct_mode, acct_lever, o_intent, o_ct_val_f, o_contracts, o_payload,
                   o_result, o_err>>
    /\ UNCHANGED nonOrderVars

\* set_position_mode has answered (code "0": the exchange has switched the
\* account): the check of the code, then the call of set_leverage.
SwitchReply(code) ==
    /\ o_pc = "switch"
    /\ acct_mode' = IF code = "0" THEN DesiredPosMode(o_intent.posSide)
                    ELSE acct_mode
    /\ IF code = "raised"
       THEN /\ OrderFails("SDK", "set_position_mode", "")
            /\ UNCHANGED o_calls
       ELSE IF Rejected(code)
       THEN /\ OrderFails("RuntimeError", "set_position_mode", code)
            /\ UNCHANGED o_calls
       ELSE /\ o_pc' = "leverage"
            /\ o_calls' = Append(o_calls, "set_leverage")
            /\ UNCHANGED o_err
    /\ UNCHANGED <<acct_lever, o_intent, o_pos_mode, o_ct_val_f, o_contracts, o_payload,
                   o_result>>
    /\ UNCHANGED nonOrderVars

\* set_leverage has answered (code "0": the exchange has set the leverage):
\* the check of the code, then _get_instrument's call of get_instruments.
LeverageReply(code) ==
    /\ o_pc = "leverage"
    /\ acct_lever' = IF code = "0" THEN ToFloat(o_intent.leverage)
                     ELSE acct_lever
    /\ IF code = "raised"
       THEN /\ OrderFails("SDK", "set_leverage", "")
            /\ UNCHANGED o_calls
       ELSE IF Rejected(code)
       THEN /\ OrderFails("RuntimeError", "set_leverage", code)
            /\ UNCHANGED o_calls
       ELSE /\ o_pc' = "instrument"
            /\ o_calls' = Append(o_calls, "get_instruments")
            /\ UNCHANGED o_err
    /\ UNCHANGED <<acct_mode, o_intent, o_pos_mode, o_ct_val_f, o_contracts, o_payload,
                   o_result>>
    /\ UNCHANGED nonOrderVars

\* A lookup whose failure sets the leverage of the account back.
InstrumentReply_Undo(res) ==
    /\ o_pc = "instrument"
    /\ IF GetInstrument(res) # ""
       THEN /\ OrderFails(GetInstrument(res), "get_instruments", res.code)
            /\ UNCHANGED <<o_calls, o_ct_val_f, o_contracts>>
       ELSE IF res.ctVal.k = "none" \/ ToFloat(res.ctVal) = <<>>
               \/ ToFloat(res.ctVal)[1] <= 0
       THEN /\ OrderFails("RuntimeError", "ctVal", "")
            /\ UNCHANGED <<o_calls, o_ct_val_f, o_contracts>>
       ELSE /\ o_ct_val_f' = ToFloat(res.ctVal)[1]
            /\ o_contracts' = Contracts(o_intent, ToFloat(res.ctVal)[1])
            /\ o_pc' = "lot"
            /\ o_calls' = Append(o_calls, "get_instruments")
            /\ UNCHANGED o_err
    /\ acct_lever' = IF o_pc' = "failed" THEN <<>> ELSE acct_lever
    /\ UNCHANGED <<acct_mode, o_intent, o_pos_mode, o_payload, o_result>>
    /\ UNCHANGED nonOrderVars

\* get_instruments has answered _get_instrument(instId): the checks of
\* ctVal, the number of contracts, then _quantize_size's call of
\* get_instruments.
InstrumentReply(res) ==
    /\ o_pc = "instrument"
    /\ IF GetInstrument(res) # ""
       THEN /\ OrderFails(GetInstrument(res), "get_instruments", res.code)
            /\ UNCHANGED <<o_calls, o_ct_val_f, o_contracts>>
       ELSE IF res.ctVal.k = "none" \/ ToFloat(res.ctVal) = <<>>
               \/ ToFloat(res.ctVal)[1] <= 0
       THEN /\ OrderFails("RuntimeError", "ctVal", "")
            /\ UNCHANGED <<o_calls, o_ct_val_f, o_contracts>>
       ELSE /\ o_ct_val_f' = ToFloat(res.ctVal)[1]
            /\ o_contracts' = Contracts(o_intent, ToFloat(res.ctVal)[1])
            /\ o_pc' = "lot"
            /\ o_calls' = Append(o_calls, "get_instruments")
            /\ UNCHANGED o_err
    /\ UNCHANGED <<acct_mode, acct_lever, o_intent, o_pos_mode, o_payload,
                   o_result>>
    /\ UNCHANGED nonOrderVars

\* get_instruments has answered inside _quantize_size(instId, contracts):
\* the size is quantized, then the payload is built and place_order is
\* called.
LotReply(res) ==
    LET q == QuantizeSize(res.lotSz, o_contracts) IN
    /\ o_pc = "lot"
    /\ q_size' = o_contracts
    /\ IF GetInstrument(res) # ""
       THEN /\ OrderFails(GetInstrument(res), "get_instruments", res.code)
            /\ q_step' = NoneVal
            /\ q_pc' = GetInstrument(res)
            /\ q_ret' = <<>>
            /\ UNCHANGED <<o_calls, o_payload>>
       ELSE IF q.raised # ""
       THEN /\ OrderFails(q.raised, "quantize", "")
            /\ q_step' = res.lotSz
            /\ q_pc' = q.raised
            /\ q_ret' = <<>>
            /\ UNCHANGED <<o_calls, o_payload>>
       ELSE /\ q_step' = res.lotSz
            /\ q_pc' = "returned"
            /\ q_ret' = <<q.sz>>
            /\ o_payload' = <<[instId |-> o_intent.instId,
                               side |-> o_intent.side,
                               posSide |-> o_intent.posSide,
                               ordType |-> "limit",
                               px |-> ToFloat(o_intent.limit_px)[1],
                               sz |-> q.sz,
                               tpTriggerPx |-> ToFloat(o_intent.take_profit)[1],
                               slTriggerPx |-> ToFloat(o_intent.stop_loss)[1]]>>
            /\ o_pc' = "place"
            /\ o_calls' = Append(o_calls, "place_order")
            /\ UNCHANGED o_err
    /\ UNCHANGED <<acct_mode, acct_lever, o_intent, o_pos_mode, o_ct_val_f, o_contracts,
                   o_result>>
    /\ UNCHANGED <<mgrVars, retryVars, closeVars>>

\* place_order has answered: the checks of code and sCode, then the result.
PlaceReply(res) ==
    /\ o_pc = "place"
    /\ IF res.code = "raised"
       THEN /\ OrderFails("SDK", "place_order", "")
            /\ UNCHANGED o_result
       ELSE IF Rejected(res.code)
       THEN /\ OrderFails("RuntimeError", "place_order", res.code)
            /\ UNCHANGED o_result
       ELSE IF res.data = "empty"
       THEN /\ OrderFails("IndexError", "place_order", res.code)
            /\ UNCHANGED o_result
       ELSE IF OrderRejected(res.sCode)
       THEN /\ OrderFails("RuntimeError", "sCode", res.sCode)
            /\ UNCHANGED o_result
       ELSE /\ o_result' = <<[instId |-> o_intent.instId,
                              side |-> o_intent.side,
                              posSide |-> o_intent.posSide,
                              leverage |-> ToFloat(o_intent.leverage)[1],
                              price |-> ToFloat(o_intent.limit_px)[1],
                              size |-> o_payload[1].sz,
                              raw_response |-> res]>>
            /\ o_pc' = "done"
            /\ UNCHANGED o_err
    /\ UNCHANGED <<acct_mode, acct_lever, o_intent, o_calls, o_pos_mode,
                   o_ct_val_f, o_contracts, o_payload>>
    /\ UNCHANGED nonOrderVars

\* --------------------------------------------------------- close_position
\* The arguments of close_position.
CloseArgs ==
    [instId : {"BTC-USDT-SWAP", "BTC-USDT"},
     posSide : {"long", "short", "net"},
     close_px : {Num(0), Num(2), NoneVal, TextVal},
     td_mode : {"isolated", ""}]

NoCloseArgs ==
    [instId |-> "", posSide |-> "", close_px |-> NoneVal, td_mode |-> ""]

\* A position of the get_positions response: its posSide, its "pos" (no such
\* key, not a number, 0, "0", "-1.5", "1.5", "3"), its "sz" (no such key, or
\* "0.5") and its mgnMode ("": no such key).
Positions ==
    [posSide : {"long", "short"},
     pos : {NoneVal, TextVal, Num(0), Dec(0, 0), Dec(0 - 15000, 1),
            Dec(15000, 1), Dec(30000, 0)},
     sz : {NoneVal, Dec(5000, 1)},
     mgnMode : {"cross", ""}]

\* The positions that come second in a response.
MorePositions ==
    [posSide : {"long", "short"}, pos : {Dec(0, 0), Dec(30000, 0)},
     sz : {NoneVal}, mgnMode : {""}]

\* Responses of get_positions: a data list of at most two positions (the
\* second one of the other margin mode or side), or an exception.
PositionsResponses ==
    {[code |-> c, data |-> d] :
        c \in {"0"},
        d \in {<<>>} \cup {<<p>> : p \in Positions}
               \cup {<<p, r>> : p \in Positions, r \in MorePositions}}
    \cup {[code |-> c, data |-> <<>>] : c \in {"50001", "51008", "raised"}}

InitClose ==
    /\ c_pc = "idle"
    /\ c_args = NoCloseArgs
    /\ c_calls = <<>>
    /\ c_position = <<>>
    /\ c_pos_size = 0
    /\ c_payload = <<>>
    /\ c_result = <<>>
    /\ c_err = NoErr

\* The checks of the arguments of close_position: "" when they pass.
ValidateClose(args) ==
    IF args.instId \notin Insts THEN "instId"
    ELSE IF args.posSide \notin {"long", "short"} THEN "posSide"
    ELSE IF ToFloat(args.close_px) = <<>> THEN "number"
    ELSE IF ToFloat(args.close_px)[1] <= 0 THEN "positive"
    ELSE ""

\* The first position of the list with the side asked for, as next() over
\* the generator takes it: <<>> or <<position>>.
RECURSIVE FindPosition(_, _)
FindPosition(pos_list, posSide) ==
    IF pos_list = <<>> THEN <<>>
    ELSE IF Head(pos_list).posSide = posSide THEN <<Head(pos_list)>>
    ELSE FindPosition(Tail(pos_list), posSide)

\* The truth value of a field value: None and 0 are false, a text that is
\* not empty is true.
Truthy(x) == ~(x.k = "none" \/ (x.k = "num" /\ x.v = 0))

\* `position.get("pos") or position.get("sz")`
RawPos(position) == IF Truthy(position.pos) THEN position.pos ELSE position.sz

\* pos_size: float(raw_pos), or 0.0 when the conversion raises.
PosSize(position) ==
    IF ToFloat(RawPos(position)) = <<>> THEN 0
    ELSE ToFloat(RawPos(position))[1]

\* `position.get("mgnMode") or td_mode or "isolated"`
TdMode(position, td_mode) ==
    IF position.mgnMode # "" THEN position.mgnMode
    ELSE IF td_mode # "" THEN td_mode
    ELSE "isolated"

\* A size test that lets a size of zero through.
BadPosSize_Negative(pos_size) == pos_size < 0

\* `if pos_size <= 0`
BadPosSize(pos_size) == pos_size <= 0

\* `"sell" if posSide == "long" else "buy"`, with the sides swapped.
OrderSide_Same(posSide) == IF posSide = "long" THEN "buy" ELSE "sell"

\* `"sell" if posSide == "long" else "buy"`
OrderSide(posSide) == IF posSide = "long" THEN "sell" ELSE "buy"

\* close_position raises.
CloseFails(type, at, code) ==
    /\ c_pc' = "failed"
    /\ c_err' = [type |-> type, at |-> at, code |-> code]

\* close_position is called: the checks of the arguments, then the call of
\* get_positions.
Close(args) ==
    /\ c_pc = "idle"
    /\ c_args' = args
    /\ IF ValidateClose(args) # ""
       THEN /\ CloseFails("ValueError", ValidateClose(args), "")
            /\ UNCHANGED c_calls
       ELSE /\ c_pc' = "positions"
            /\ c_calls' = Append(c_calls, "get_positions")
            /\ UNCHANGED c_err
    /\ UNCHANGED <<c_position, c_pos_size, c_payload, c_result>>
    /\ UNCHANGED nonCloseVars

\* get_positions has answered: the position of the side is looked up and
\* its size checked, then _quantize_size calls get_instruments.
PositionsReply(res) ==
    LET found == FindPosition(res.data, c_args.posSide) IN
    /\ c_pc = "positions"
    /\ IF res.code = "raised"
       THEN /\ CloseFails("SDK", "get_positions", "")
            /\ UNCHANGED <<c_calls, c_position, c_pos_size>>
       ELSE IF found = <<>>
       THEN /\ CloseFails("ValueError", "position", "")
            /\ UNCHANGED <<c_calls, c_position, c_pos_size>>
       ELSE IF BadPosSize(PosSize(found[1]))
       THEN /\ CloseFails("ValueError", "pos_size", "")
            /\ c_position' = found
            /\ c_pos_size' = PosSize(found[1])
            /\ UNCHANGED c_calls
       ELSE /\ c_position' = found
            /\ c_pos_size' = PosSize(found[1])
            /\ c_pc' = "lot"
            /\ c_calls' = Append(c_calls, "get_instruments")
            /\ UNCHANGED c_err
    /\ UNCHANGED <<c_args, c_payload, c_result>>
    /\ UNCHANGED nonCloseVars

\* get_instruments has answered inside _quantize_size(instId, pos_size): the
\* size is quantized, then the payload is built and place_order is called.
CloseLotReply(res) ==
    LET q == QuantizeSize(res.lotSz, c_pos_size) IN
    /\ c_pc = "lot"
    /\ q_size' = c_pos_size
    /\ IF GetInstrument(res) # ""
       THEN /\ CloseFails(GetInstrument(res), "get_instruments", res.code)
            /\ q_step' = NoneVal
            /\ q_pc' = GetInstrument(res)
            /\ q_ret' = <<>>
            /\ UNCHANGED <<c_calls, c_payload>>
       ELSE IF q.raised # ""
       THEN /\ CloseFails(q.raised, "quantize", "")
            /\ q_step' = res.lotSz
            /\ q_pc' = q.raised
            /\ q_ret' = <<>>
            /\ UNCHANGED <<c_calls, c_payload>>
       ELSE /\ q_step' = res.lotSz
            /\ q_pc' = "returned"
            /\ q_ret' = <<q.sz>>
            /\ c_payload' = <<[instId |-> c_args.instId,
                               tdMode |-> TdMode(c_position[1], c_args.td_mode),
                               side |-> OrderSide(c_args.posSide),
                               posSide |-> c_args.posSide,
                               ordType |-> "limit",
                               px |-> ToFloat(c_args.close_px)[1],
                               sz |-> q.sz,
                               reduceOnly |-> TRUE]>>
            /\ c_pc' = "place"
            /\ c_calls' = Append(c_calls, "place_order")
            /\ UNCHANGED c_err
    /\ UNCHANGED <<c_args, c_position, c_pos_size, c_result>>
    /\ UNCHANGED <<mgrVars, retryVars, orderVars>>

\* place_order has answered close_position: the checks of code and sCode,
\* then the result.
ClosePlaceReply(res) ==
    /\ c_pc = "place"
    /\ IF res.code = "raised"
       THEN /\ CloseFails("SDK", "place_order", "")
            /\ UNCHANGED c_result
       ELSE IF Rejected(res.code)
       THEN /\ CloseFails("RuntimeError", "place_order", res.code)
            /\ UNCHANGED c_result
       ELSE IF res.data = "empty"
       THEN /\ CloseFails("IndexError", "place_order", res.code)
            /\ UNCHANGED c_result
       ELSE IF OrderRejected(res.sCode)
       THEN /\ CloseFails("RuntimeError", "sCode", res.sCode)
            /\ UNCHANGED c_result
       ELSE /\ c_result' = <<[instId |-> c_args.instId,
                              side |-> c_payload[1].side,
                              posSide |-> c_args.posSide,
                              tdMode |-> c_payload[1].tdMode,
                              price |-> ToFloat(c_args.close_px)[1],
                              size |-> c_payload[1].sz,
                              raw_response |-> res]>>
            /\ c_pc' = "done"
            /\ UNCHANGED c_err
    /\ UNCHANGED <<c_args, c_calls, c_position, c_pos_size, c_payload>>
    /\ UNCHANGED nonCloseVars

\* ------------------------------------------- the polling fetch on the loop
\* No task is inside the synchronous price fetch: the thread of the event
\* loop is free to run a ready task or callback.
LoopFree == \A c \in CallIds : task[c] # "fetching"

\* A step of the event loop: it runs only when the loop's thread is free.
OnLoop(step) == LoopFree /\ step

\* The polling task c runs `_get_current_price(inst_id)`: a plain call with
\* no await, which enters wrapped() of the market client for get_ticker.
PollFetch(c) ==
    /\ LoopFree
    /\ task[c] = "poll"
    /\ wobj[c].samples < MaxPolls
    /\ r_pc = "idle"
    /\ task' = [task EXCEPT ![c] = "fetching"]
    /\ r_pc' = "call"
    /\ r_op' = "get_ticker"
    /\ r_i' = 0
    /\ UNCHANGED <<r_calls, r_hist, r_last, r_ret, r_slept>>
    /\ UNCHANGED <<wsAvailable, event, flow, ws, ws_connected, ws_lock,
                   lock_waiters, ws_started, watchers, wobj, ncalls,
                   subscribed, sub_sent, inbox, last_trigger>>
    /\ UNCHANGED <<orderVars, quantVars, closeVars>>

\* wrapped() has returned a response with code "0" to _get_current_price and
\* the iteration of _poll_price goes on with the price: the predicate, the
\* trigger or the expiry, or the sleep that gives the loop back.
PollResult(c, last_price) ==
    LET w == wobj[c] IN
    /\ task[c] = "fetching"
    /\ r_pc = "returned" /\ r_ret # <<>> /\ r_ret[1].code = "0"
    /\ IF w.direction \notin {"above", "below"}
       THEN /\ task' = [task EXCEPT ![c] = "failed"]
            /\ wobj' = [wobj EXCEPT ![c].samples = @ + 1]
            /\ UNCHANGED <<last_trigger, event, flow>>
       ELSE IF PollHit(w.direction, w.target_price, w.tolerance, last_price)
       THEN /\ last_trigger' = <<[inst_id |-> w.inst_id, last_price |-> last_price,
                                  target_price |-> w.target_price,
                                  direction |-> w.direction, mode |-> "polling",
                                  status |-> "triggered"]>>
            /\ event' = TRUE
            /\ flow' = Trigger_flow(flow)
            /\ wobj' = [wobj EXCEPT ![c].samples = @ + 1,
                                    ![c].status = "triggered",
                                    ![c].last_price = <<last_price>>]
            /\ task' = [task EXCEPT ![c] = "done"]
       ELSE IF Exhausted(w.checks + 1, w.max_checks)
       THEN /\ last_trigger' = <<[inst_id |-> w.inst_id, last_price |-> last_price,
                                  target_price |-> w.target_price,
                                  direction |-> w.direction, mode |-> "polling",
                                  status |-> "expired"]>>
            /\ wobj' = [wobj EXCEPT ![c].samples = @ + 1,
                                    ![c].checks = @ + 1,
                                    ![c].status = "expired",
                                    ![c].last_price = <<last_price>>]
            /\ task' = [task EXCEPT ![c] = "done"]
            /\ UNCHANGED <<event, flow>>
       ELSE /\ wobj' = [wobj EXCEPT ![c].samples = @ + 1, ![c].checks = @ + 1]
            /\ task' = [task EXCEPT ![c] = "poll"]
            /\ UNCHANGED <<last_trigger, event, flow>>
    /\ r_pc' = "idle" /\ r_op' = "" /\ r_i' = 0 /\ r_calls' = 0
    /\ r_hist' = <<>> /\ r_last' = <<>> /\ r_ret' = <<>> /\ r_slept' = <<>>
    /\ UNCHANGED <<wsAvailable, ws, ws_connected, ws_lock, lock_waiters,
                   ws_started, watchers, ncalls, subscribed, sub_sent, inbox>>
    /\ UNCHANGED <<orderVars, quantVars, closeVars>>

\* wrapped() has returned a response whose code is not "0", or get_ticker
\* raised: _get_current_price raises and the polling task ends.
PollRaise(c) ==
    /\ task[c] = "fetching"
    /\ \/ r_pc = "raised"
       \/ r_pc = "returned" /\ r_ret # <<>> /\ r_ret[1].code # "0"
    /\ task' = [task EXCEPT ![c] = "failed"]
    /\ r_pc' = "idle" /\ r_op' = "" /\ r_i' = 0 /\ r_calls' = 0
    /\ r_hist' = <<>> /\ r_last' = <<>> /\ r_ret' = <<>> /\ r_slept' = <<>>
    /\ UNCHANGED <<wsAvailable, event, flow, ws, ws_connected, ws_lock,
                   lock_waiters, ws_started, watchers, wobj, ncalls,
                   subscribed, sub_sent, inbox, last_trigger>>
    /\ UNCHANGED <<orderVars, quantVars, closeVars>>

Init == InitMgr /\ InitRetry /\ InitOrder /\ InitQuant /\ InitClose


Next ==
    \/ \E i \in NativeSymbols, t \in Targets, d \in Directions,
          tol \in Tolerances, mc \in MaxChecksArgs : Subscribe(i, t, d, tol, mc)
    \/ ClearEvent
    \/ \E c \in CallIds : FeedStart(c)
    \/ \E c \in CallIds : FeedLocked(c)
    \/ \E c \in CallIds, ok \in BOOLEAN : FeedConnect(c, ok)
    \/ \E c \in CallIds, ok \in BOOLEAN : FeedSubscribed(c, ok)
    \/ \E i \in Insts, p \in Prices : TickArrive(i, p)
    \/ HandleMessage
    \/ \E c \in CallIds, p \in Prices : PollSample(c, p)
    \/ \E c \in CallIds : PollFail(c)
    \/ AwaitWake
    \/ FlowResume
    \/ FlowTimeout
    \/ FlowNext

Spec == Init /\ [][Next]_vars

\* The feed tasks alone: subscribe calls and the steps of _subscribe_inst.
\* These steps read and write the connection, the lock, the tasks, _subscribed
\* and the instrument of a watcher, which no other step writes.
NextFeed ==
    \/ \E i \in NativeSymbols, t \in Targets, d \in Directions,
          tol \in Tolerances, mc \in MaxChecksArgs : Subscribe(i, t, d, tol, mc)
    \/ \E c \in CallIds : FeedStart(c)
    \/ \E c \in CallIds : FeedLocked(c)
    \/ \E c \in CallIds, ok \in BOOLEAN : FeedConnect(c, ok)
    \/ \E c \in CallIds, ok \in BOOLEAN : FeedSubscribed(c, ok)

SpecFeed == Init /\ [][NextFeed]_vars

\* The polling loops alone, without the feed library: subscribe calls for one
\* instrument with tolerance 0 and either direction, and the polling tasks.
NextPoll ==
    \/ \E t \in Targets, d \in {"above", "below"}, mc \in MaxChecksArgs :
          Subscribe(NativeSymbol("BTC"), t, d, 0, mc)
    \/ \E c \in CallIds, p \in Prices : PollSample(c, p)
    \/ \E c \in CallIds : PollFail(c)

\* The module was imported without the feed library.
InitPoll == Init /\ wsAvailable = FALSE

SpecPoll == InitPoll /\ [][NextPoll]_vars

\* The module was imported with the feed library.
InitTick == Init /\ wsAvailable = TRUE

\* The feed path for one instrument: subscribe calls with either direction and
\* every tolerance, the steps of _subscribe_inst, and the ticks.
NextTick ==
    \/ \E t \in Targets, d \in {"above", "below"}, tol \in Tolerances :
          Subscribe(NativeSymbol("BTC"), t, d, tol, <<>>)
    \/ \E c \in CallIds : FeedStart(c)
    \/ \E c \in CallIds : FeedLocked(c)
    \/ \E c \in CallIds, ok \in BOOLEAN : FeedConnect(c, ok)
    \/ \E c \in CallIds, ok \in BOOLEAN : FeedSubscribed(c, ok)
    \/ \E i \in Insts, p \in Prices : TickArrive(i, p)
    \/ HandleMessage

SpecTick == InitTick /\ [][NextTick]_vars

\* The feed path with subscribe calls under every spelling of one
\* instrument, tolerance 0 and direction above.
NextNorm ==
    \/ \E s \in {y \in Symbols : y[1] = "BTC"}, t \in Targets :
          Subscribe(s, t, "above", 0, <<>>)
    \/ \E c \in CallIds : FeedStart(c)
    \/ \E c \in CallIds : FeedLocked(c)
    \/ \E c \in CallIds, ok \in BOOLEAN : FeedConnect(c, ok)
    \/ \E c \in CallIds, ok \in BOOLEAN : FeedSubscribed(c, ok)
    \/ \E i \in Insts, p \in Prices : TickArrive(i, p)
    \/ HandleMessage

SpecNorm == InitTick /\ [][NextNorm]_vars

\* The feed path for two instruments: subscribe calls with either direction,
\* tolerance 0 and max_checks given or not, the steps of _subscribe_inst, and
\* the ticks of both instruments.
NextSched ==
    \/ \E s \in NativeSymbols, t \in Targets, d \in {"above", "below"},
          mc \in {<<>>, <<1>>} : Subscribe(s, t, d, 0, mc)
    \/ \E c \in CallIds : FeedStart(c)
    \/ \E c \in CallIds : FeedLocked(c)
    \/ \E c \in CallIds, ok \in BOOLEAN : FeedConnect(c, ok)
    \/ \E c \in CallIds, ok \in BOOLEAN : FeedSubscribed(c, ok)
    \/ \E i \in Insts, p \in Prices : TickArrive(i, p)
    \/ HandleMessage

SpecSched == InitTick /\ [][NextSched]_vars

\* The two paths side by side, with or without the feed library: subscribe
\* calls for one instrument with every direction and tolerance and
\* max_checks 1, the feed tasks with a feed that answers, the ticks and the
\* polling loops.
NextPaths ==
    \/ \E t \in Targets, d \in Directions, tol \in Tolerances :
          Subscribe(NativeSymbol("BTC"), t, d, tol, <<1>>)
    \/ \E c \in CallIds : FeedStart(c)
    \/ \E c \in CallIds : FeedLocked(c)
    \/ \E c \in CallIds : FeedConnect(c, TRUE)
    \/ \E c \in CallIds : FeedSubscribed(c, TRUE)
    \/ \E i \in Insts, p \in Prices : TickArrive(i, p)
    \/ HandleMessage
    \/ \E c \in CallIds, p \in Prices : PollSample(c, p)
    \/ \E c \in CallIds : PollFail(c)

SpecPaths == Init /\ [][NextPaths]_vars

\* The wake signal with every kind of feed message, with or without the feed
\* library: subscribe calls for one instrument with direction above,
\* tolerance 0 and max_checks 1; the feed tasks, the messages, the polling
\* loops, clear_event and the steps of the flow.
NextSignal ==
    \/ \E t \in Targets : Subscribe(NativeSymbol("BTC"), t, "above", 0, <<1>>)
    \/ ClearEvent
    \/ \E c \in CallIds : FeedStart(c)
    \/ \E c \in CallIds : FeedLocked(c)
    \/ \E c \in CallIds, ok \in BOOLEAN : FeedConnect(c, ok)
    \/ \E c \in CallIds, ok \in BOOLEAN : FeedSubscribed(c, ok)
    \/ \E i \in Insts, p \in Prices : TickArrive(i, p)
    \/ \E m \in OtherMessages : FeedMessage(m)
    \/ HandleMessage
    \/ \E c \in CallIds, p \in Prices : PollSample(c, p)
    \/ \E c \in CallIds : PollFail(c)
    \/ AwaitWake
    \/ FlowResume
    \/ FlowTimeout
    \/ FlowNext

SpecSignal == Init /\ [][NextSignal]_vars

\* The wake signal and the flow that waits on it, with or without the feed
\* library: subscribe calls for one instrument with tolerance 0, either
\* direction, and max_checks 1; the feed tasks, the ticks, the polling loops,
\* clear_event and the steps of the flow.
NextWake ==
    \/ \E t \in Targets, d \in {"above", "below"} :
          Subscribe(NativeSymbol("BTC"), t, d, 0, <<1>>)
    \/ ClearEvent
    \/ \E c \in CallIds : FeedStart(c)
    \/ \E c \in CallIds : FeedLocked(c)
    \/ \E c \in CallIds, ok \in BOOLEAN : FeedConnect(c, ok)
    \/ \E c \in CallIds, ok \in BOOLEAN : FeedSubscribed(c, ok)
    \/ \E i \in Insts, p \in Prices : TickArrive(i, p)
    \/ HandleMessage
    \/ \E c \in CallIds, p \in Prices : PollSample(c, p)
    \/ \E c \in CallIds : PollFail(c)
    \/ AwaitWake
    \/ FlowResume
    \/ FlowTimeout
    \/ FlowNext

SpecWake == Init /\ [][NextWake]_vars

\* The flow waiting for watchers of one instrument with direction above on
\* the feed path.
NextResume ==
    \/ \E t \in Targets : Subscribe(NativeSymbol("BTC"), t, "above", 0, <<>>)
    \/ ClearEvent
    \/ \E c \in CallIds : FeedStart(c)
    \/ \E c \in CallIds : FeedLocked(c)
    \/ \E c \in CallIds, ok \in BOOLEAN : FeedConnect(c, ok)
    \/ \E c \in CallIds, ok \in BOOLEAN : FeedSubscribed(c, ok)
    \/ \E i \in Insts, p \in Prices : TickArrive(i, p)
    \/ HandleMessage
    \/ AwaitWake
    \/ FlowResume
    \/ FlowTimeout
    \/ FlowNext

\* The event loop runs every task that is ready: a _handle_message task that
\* was created runs, and a flow whose future was resolved resumes.
SpecResume ==
    InitTick /\ [][NextResume]_vars
        /\ WF_vars(HandleMessage) /\ WF_vars(FlowResume)

\* place_okx_order, one call of it, and the account it acts on.
NextOrder ==
    \/ \E m \in PosModes : AccountMode(m)
    \/ \E intent \in Intents : Submit(intent)
    \/ \E res \in BalanceResponses : BalanceReply(res)
    \/ \E res \in ConfigResponses : ConfigReply(res)
    \/ \E code \in ReplyCodes : SwitchReply(code)
    \/ \E code \in ReplyCodes : LeverageReply(code)
    \/ \E res \in InstrumentResponses : InstrumentReply(res)
    \/ \E res \in InstrumentResponses : LotReply(res)
    \/ \E res \in PlaceResponses : PlaceReply(res)

SpecOrder == Init /\ [][NextOrder]_vars

\* _quantize_size alone, over every lot step and size.
NextQuant ==
    \E lot_sz \in LotSzs, base_size \in QtySizes :
        QuantizeSizeCall(lot_sz, base_size)

SpecQuant == Init /\ [][NextQuant]_vars

\* _quantize_size over every lot step and size, and place_okx_order, which
\* calls it, for the intents that buy on the net side and pass the checks.
NextSize ==
    \/ \E lot_sz \in LotSzs, base_size \in QtySizes :
          QuantizeSizeCall(lot_sz, base_size)
    \/ \E intent \in {i \in Intents : Validate(i) = "" /\ i.side = "buy"
                                        /\ i.posSide = "net"} : Submit(intent)
    \/ \E res \in BalanceResponses : BalanceReply(res)
    \/ \E res \in ConfigResponses : ConfigReply(res)
    \/ \E code \in ReplyCodes : SwitchReply(code)
    \/ \E code \in ReplyCodes : LeverageReply(code)
    \/ \E res \in InstrumentResponses : InstrumentReply(res)
    \/ \E res \in InstrumentResponses : LotReply(res)
    \/ \E res \in PlaceResponses : PlaceReply(res)

SpecSize == Init /\ [][NextSize]_vars

\* place_okx_order for the arguments and instruments of SizingIntents and
\* SizingResponses, on an account that lets every call before place_order
\* through.
NextNotional ==
    \/ \E m \in PosModes : AccountMode(m)
    \/ \E intent \in SizingIntents : Submit(intent)
    \/ \E res \in BalanceResponses : BalanceReply(res)
    \/ \E res \in ConfigResponses : ConfigReply(res)
    \/ \E code \in ReplyCodes : SwitchReply(code)
    \/ \E code \in ReplyCodes : LeverageReply(code)
    \/ \E res \in SizingResponses : InstrumentReply(res)
    \/ \E res \in SizingResponses : LotReply(res)
    \/ \E res \in PlaceResponses : PlaceReply(res)

SpecNotional == Init /\ [][NextNotional]_vars

\* The feed over its whole life, for both instruments: subscribe calls for
\* watchers that trigger at or above the target, the steps of
\* _subscribe_inst, the ticks and their handling, and the flow that waits,
\* resumes or gives up on timeout.
NextChannel ==
    \/ \E i \in NativeSymbols, t \in Targets : Subscribe(i, t, "above", 0, <<>>)
    \/ ClearEvent
    \/ \E c \in CallIds : FeedStart(c)
    \/ \E c \in CallIds : FeedLocked(c)
    \/ \E c \in CallIds, ok \in BOOLEAN : FeedConnect(c, ok)
    \/ \E c \in CallIds, ok \in BOOLEAN : FeedSubscribed(c, ok)
    \/ \E i \in Insts, p \in Prices : TickArrive(i, p)
    \/ HandleMessage
    \/ AwaitWake
    \/ FlowResume
    \/ FlowTimeout
    \/ FlowNext

SpecChannel == InitTick /\ [][NextChannel]_vars

\* close_position, one call of it.
NextClose ==
    \/ \E args \in CloseArgs : Close(args)
    \/ \E res \in PositionsResponses : PositionsReply(res)
    \/ \E res \in InstrumentResponses : CloseLotReply(res)
    \/ \E res \in PlaceResponses : ClosePlaceReply(res)

SpecClose == Init /\ [][NextClose]_vars

\* The polling loops with their price fetch spelled out, without the feed
\* library: subscribe calls for one instrument with direction above,
\* tolerance 0 and max_checks 1, the fetch through the retry wrapper, and the
\* flow that waits for the wake signal.
NextBlock ==
    \/ \E t \in Targets :
          OnLoop(Subscribe(NativeSymbol("BTC"), t, "above", 0, <<1>>))
    \/ OnLoop(ClearEvent)
    \/ \E c \in CallIds : PollFetch(c)
    \/ \E code \in Codes : RetryAttempt(code, "x")
    \/ RetryRaise
    \/ RetryWake
    \/ \E c \in CallIds, p \in Prices : PollResult(c, p)
    \/ \E c \in CallIds : PollRaise(c)
    \/ OnLoop(AwaitWake)
    \/ OnLoop(FlowResume)
    \/ OnLoop(FlowTimeout)
    \/ OnLoop(FlowNext)

SpecBlock == InitPoll /\ [][NextBlock]_vars

NextRetry ==
    \/ \E op \in Ops : RetryBegin(op)
    \/ \E code \in Codes, data \in Payloads : RetryAttempt(code, data)
    \/ RetryRaise
    \/ RetryWake

SpecRetry == Init /\ [][NextRetry]_vars

\* ------------------------------------------------------------------ claims
\* Watcher c is in one of the active lists.
InList(c, lists) == \E i \in Insts : \E n \in 1..Len(lists[i]) : lists[i][n] = c

\* The step is a run of _handle_message on the oldest pending message.
HandleStep == inbox # <<>> /\ inbox' = Tail(inbox)

\* C1: for subscribe calls naming the same instrument, also when their
\* _subscribe_inst tasks interleave, the ticker subscribe request of the
\* instrument goes to the feed exactly once: never twice, and once when the
\* instrument is recorded as subscribed.
C1_SubscribeSentOnce ==
    \A i \in Insts :
        /\ sub_sent[i] <= 1
        /\ (i \in subscribed => sub_sent[i] = 1)

\* C2: with concurrent _ensure_ws callers and a connect that succeeds, the
\* connection is created and started once (no connection is created or started
\* after the one that succeeded, and with no failed task only one was ever
\* created), and a task is past _ensure_ws only when the connection is marked
\* connected.
C2_ConnectOnce ==
    /\ Cardinality(ws_started) <= 1
    /\ ws_connected =>
          /\ ws # <<>> /\ ws_started = {ws[1]}
          /\ \A c \in CallIds : task[c] # "connecting"
    /\ ((\A c \in CallIds : task[c] # "connect_failed") /\ ws # <<>>) => ws[1] = 1
    /\ \A c \in CallIds :
          (wobj[c].mode = "websocket"
             /\ task[c] \in {"subscribing", "done", "subscribe_failed"})
          => ws_connected

\* A task waits for the lock while the connect of its holder has succeeded.
C2_Witness ==
    \E c \in CallIds : task[c] = "lock_wait" /\ ws_lock = 0 /\ ws_connected

\* C3: when a tick (instrument, price) is handled, a watcher in the
\* instrument's active list with direction above becomes TRIGGERED iff
\* price >= target - tolerance, one with direction below iff
\* price <= target + tolerance.
C3_TriggerIff ==
    [][HandleStep =>
        LET m == Head(inbox) IN
        \A n \in 1..Len(watchers[m.instId]) :
            LET c == watchers[m.instId][n]
                w == wobj[c]
            IN /\ w.status = "scheduled"
               /\ w.direction = "above" =>
                     (wobj'[c].status = "triggered"
                         <=> m.last >= w.target_price - w.tolerance)
               /\ w.direction = "below" =>
                     (wobj'[c].status = "triggered"
                         <=> m.last <= w.target_price + w.tolerance)]_vars

\* A feed watcher with a positive tolerance was triggered by the price exactly
\* at its threshold, and another of the same instrument stayed scheduled.
C3_Witness ==
    \E c \in CallIds, d \in CallIds :
        /\ wobj[c].mode = "websocket" /\ wobj[c].status = "triggered"
        /\ wobj[c].tolerance > 0
        /\ \/ wobj[c].direction = "above"
              /\ wobj[c].last_price = <<wobj[c].target_price - wobj[c].tolerance>>
           \/ wobj[c].direction = "below"
              /\ wobj[c].last_price = <<wobj[c].target_price + wobj[c].tolerance>>
        /\ wobj[d].inst_id = wobj[c].inst_id
        /\ wobj[d].status = "scheduled" /\ InList(d, watchers)
        /\ wobj[d].direction \in {"above", "below"}
        /\ d < c

\* C4: a watcher is triggered at most once: a TRIGGERED watcher is in no
\* active list from the step that triggers it, and no later step changes its
\* status or its last_price.
C4_TriggeredOnce ==
    [][\A c \in CallIds :
        /\ wobj[c].status = "triggered" => wobj'[c] = wobj[c]
        /\ wobj'[c].status = "triggered" => ~InList(c, watchers')]_vars

\* Watcher c was triggered, and a later tick whose price satisfies c's
\* predicate triggered the later-registered watcher d of the same instrument
\* without touching c.
C4_Witness ==
    \E c \in CallIds, d \in CallIds :
        /\ c < d
        /\ wobj[c].mode = "websocket" /\ wobj[d].mode = "websocket"
        /\ wobj[c].inst_id = wobj[d].inst_id
        /\ wobj[c].status = "triggered" /\ wobj[d].status = "triggered"
        /\ wobj[c].last_price # wobj[d].last_price
        /\ \/ wobj[c].direction = "above"
              /\ wobj[d].last_price[1] >= wobj[c].target_price - wobj[c].tolerance
           \/ wobj[c].direction = "below"
              /\ wobj[d].last_price[1] <= wobj[c].target_price + wobj[c].tolerance

\* C5: the step in which a tick moves a feed watcher to TRIGGERED also sets
\* the wake signal (resolving the wait of a suspended flow) and records the
\* price of that tick as the watcher's last_price.
C5_TriggerSetsWake ==
    [][\A c \in CallIds :
        (wobj[c].mode = "websocket" /\ wobj[c].status # "triggered"
            /\ wobj'[c].status = "triggered")
        => /\ event'
           /\ flow = "waiting" => flow' = "woken"
           /\ inbox # <<>>
           /\ Head(inbox).instId = wobj[c].inst_id
           /\ wobj'[c].last_price = <<Head(inbox).last>>]_vars

\* A tick triggered a feed watcher while the flow was suspended.
C5_Witness ==
    /\ flow = "woken" /\ event
    /\ \E c \in CallIds :
          /\ wobj[c].mode = "websocket" /\ wobj[c].status = "triggered"
          /\ last_trigger # <<>>
          /\ <<last_trigger[1].last_price>> = wobj[c].last_price

\* A pending tick satisfies the predicate of a scheduled watcher in the active
\* list of its instrument.
MatchPending ==
    \E k \in 1..Len(inbox) : \E n \in 1..Len(watchers[inbox[k].instId]) :
        LET w == wobj[watchers[inbox[k].instId][n]] IN
        /\ w.status = "scheduled"
        /\ \/ w.direction = "above"
              /\ inbox[k].last >= w.target_price - w.tolerance
           \/ w.direction = "below"
              /\ inbox[k].last <= w.target_price + w.tolerance

\* C6: if the flow is suspended in its wait and a tick that satisfies the
\* predicate of a scheduled watcher has been delivered, the flow eventually
\* runs again (the loop runs every ready task).
C6_FlowResumes ==
    (flow = "waiting" /\ MatchPending) ~> (flow \notin {"waiting", "woken"})

C6_Witness == flow = "waiting" /\ MatchPending

\* C7: once set, the wake signal stays set until clear_event: the only step
\* that takes it from set to clear is clear_event, whatever else runs; and a
\* wait begun while it is set returns at once.
C7_StaysSetUntilCleared ==
    [][/\ (event /\ ~event') => ClearEvent
       /\ (event /\ flow = "idle" /\ flow' # "idle") => flow' = "resumed_now"]_vars

\* The flow's wait returned at once on a signal left set by an earlier
\* trigger, while the watcher registered since is still scheduled and no
\* trigger is recorded.
C7_Witness ==
    /\ flow = "resumed_now" /\ event /\ last_trigger = <<>>
    /\ \E c \in CallIds : wobj[c].status = "triggered"
    /\ \E c \in CallIds : wobj[c].status = "scheduled"

\* C8: a polling watcher with max_checks = n >= 1 never takes more than n
\* samples; while its loop is still running it has taken fewer than n, so the
\* n-th sample that does not match ends it; and it is EXPIRED only after
\* exactly n samples.
C8_PollingExpiry ==
    \A c \in CallIds :
        (wobj[c].mode = "polling" /\ wobj[c].max_checks # <<>>)
        => LET n == wobj[c].max_checks[1] IN
           /\ wobj[c].samples <= n
           /\ task[c] = "poll" => wobj[c].samples < n
           /\ wobj[c].status = "expired" =>
                 wobj[c].samples = n /\ task[c] = "done"
           /\ (wobj[c].samples = n /\ task[c] = "done")
                 => wobj[c].status \in {"expired", "triggered"}

\* A polling watcher with max_checks = 2 expired after its second sample.
C8_Witness ==
    \E c \in CallIds :
        /\ wobj[c].mode = "polling" /\ wobj[c].max_checks = <<2>>
        /\ wobj[c].status = "expired" /\ wobj[c].samples = 2

\* C9: for every subscribe call whose live feed cannot be established (no
\* feed library, or the connect fails) a polling loop is started for that
\* watcher.
C9_FallbackToPolling ==
    \A c \in CallIds :
        ((c <= ncalls /\ ~wsAvailable) \/ task[c] = "connect_failed")
        => wobj[c].mode = "polling"

\* The number of retryable responses at the start of the history h.
RECURSIVE LeadingRetryable(_)
LeadingRetryable(h) ==
    IF h = <<>> \/ Head(h).code \notin RETRY_CODES THEN 0
    ELSE 1 + LeadingRetryable(Tail(h))

\* C10: when wrapped() has returned and the operation's responses began with
\* k <= 2 retryable ones, the operation was called exactly k + 1 times and
\* the response returned is the (k+1)-th, the first that is not retryable;
\* the operation is never called more than three times.
C10_RetryCount ==
    /\ r_calls <= MAX_RETRIES + 1
    /\ (r_pc = "returned" /\ LeadingRetryable(r_hist) <= MAX_RETRIES)
       => LET k == LeadingRetryable(r_hist) IN
          /\ r_calls = k + 1
          /\ Len(r_hist) = k + 1
          /\ r_ret = <<r_hist[k + 1]>>
          /\ r_hist[k + 1].code \notin RETRY_CODES

\* Two retryable responses, then a success: returned after the third call.
C10_Witness ==
    /\ r_pc = "returned" /\ r_calls = 3
    /\ r_ret # <<>> /\ r_ret[1].code = "0" /\ r_ret[1].n = 3
    /\ r_hist[1].code = "50001" /\ r_hist[2].code = "50001"

\* C11: when the operation answers with a retryable status on all three
\* attempts, wrapped() has called it exactly three times, has raised nothing
\* and has returned the third response; and it returns a retryable response
\* only then.
C11_ExhaustedReturnsLast ==
    /\ (Len(r_hist) >= MAX_RETRIES + 1
           /\ LeadingRetryable(r_hist) >= MAX_RETRIES + 1)
       => /\ r_pc = "returned"
          /\ r_calls = MAX_RETRIES + 1
          /\ Len(r_hist) = MAX_RETRIES + 1
          /\ r_ret = <<r_hist[MAX_RETRIES + 1]>>
    /\ (r_pc = "returned" /\ r_ret[1].code \in RETRY_CODES)
       => r_calls = MAX_RETRIES + 1

\* Three retryable responses: the third one was returned.
C11_Witness ==
    /\ r_pc = "returned" /\ r_calls = 3
    /\ r_ret # <<>> /\ r_ret[1].code = "50001" /\ r_ret[1].n = 3
    /\ r_slept = <<3, 6>>

\* The exchange calls place_okx_order has issued.
Issued == {o_calls[n] : n \in 1..Len(o_calls)}

\* Every call named a in o_calls comes before every call named b.
Before(a, b) ==
    \A m \in 1..Len(o_calls), n \in 1..Len(o_calls) :
        (o_calls[m] = a /\ o_calls[n] = b) => m < n

\* Status codes of a response that are not zero.
NonZero == {"50001", "51008"}

\* C12: in every execution of place_okx_order the mode switch, when the mode
\* read differs from the required one, is issued and answered before
\* set_leverage, and set_leverage before place_order: no order without a
\* leverage call before it, no leverage call while the switch is unanswered.
C12_CallOrder ==
    /\ Before("set_position_mode", "set_leverage")
    /\ Before("set_position_mode", "place_order")
    /\ Before("set_leverage", "place_order")
    /\ "place_order" \in Issued => "set_leverage" \in Issued
    /\ ("set_leverage" \in Issued
           /\ o_pos_mode # DesiredPosMode(o_intent.posSide))
       => "set_position_mode" \in Issued
    /\ o_pc = "switch" => o_calls[Len(o_calls)] = "set_position_mode"
    /\ o_pc = "leverage" => o_calls[Len(o_calls)] = "set_leverage"

\* A long order on an account in net mode went through: switch, leverage,
\* order.
C12_Witness ==
    /\ o_pc = "done" /\ o_intent.posSide = "long" /\ o_pos_mode = "net_mode"
    /\ o_calls = <<"get_account_balance", "get_account_config",
                   "set_position_mode", "set_leverage", "get_instruments",
                   "get_instruments", "place_order">>

\* C13: a non-zero status of set_position_mode or of set_leverage makes
\* place_okx_order fail in that step without another exchange call: no
\* place_order, and after a rejected switch no set_leverage either.
C13_ReconcileFailureAborts ==
    [][/\ \A code \in NonZero :
             SwitchReply(code)
             => /\ o_pc' = "failed" /\ o_result' = <<>>
                /\ o_calls' = o_calls
                /\ "set_leverage" \notin Issued /\ "place_order" \notin Issued
       /\ \A code \in NonZero :
             LeverageReply(code)
             => /\ o_pc' = "failed" /\ o_result' = <<>>
                /\ o_calls' = o_calls
                /\ "place_order" \notin Issued
       /\ o_pc = "failed" => (o_pc' = "failed" /\ o_calls' = o_calls)]_vars

\* set_leverage was rejected after a switch that went through.
C13_Witness ==
    /\ o_pc = "failed" /\ o_err.at = "set_leverage" /\ o_err.code = "51008"
    /\ "set_position_mode" \in Issued /\ "place_order" \notin Issued
    /\ acct_mode = "long_short_mode"

\* The USDT balance a get_account_balance response shows as available (none
\* listed: zero).
AvailBal(res) == IF res.availBal.k = "numstr" THEN res.availBal.v ELSE 0

\* C14: when the balance response shows less USDT available than the margin
\* asked for, place_okx_order fails in that step, having called nothing but
\* get_account_balance, and the account's mode and leverage are as before.
C14_InsufficientBalance ==
    [][\A res \in BalanceResponses :
        (BalanceReply(res) /\ res.data = "details"
            /\ res.availBal.k \in {"numstr", "none"}
            /\ AvailBal(res) < o_intent.usdt_amount.v)
        => /\ o_pc' = "failed" /\ o_err'.type = "ValueError"
           /\ o_calls' = <<"get_account_balance">>
           /\ o_result' = <<>>
           /\ UNCHANGED <<acct_mode, acct_lever>>]_vars

\* A long order for a margin of 3 failed on a balance of 2 with the account
\* still in net mode.
C14_Witness ==
    /\ o_pc = "failed" /\ o_err.at = "balance"
    /\ o_intent.posSide = "long" /\ o_intent.usdt_amount = Num(3)
    /\ acct_mode = "net_mode" /\ acct_lever = <<>>
    /\ o_calls = <<"get_account_balance">>

\* The intent fails one of the checks of the arguments: the instrument is
\* not a perpetual, side or posSide is outside its enum, a field is not a
\* number, margin, limit price or leverage is not positive, or a stop level
\* is missing.
Invalid(intent) ==
    \/ intent.instId \notin {"BTC-USDT-SWAP", "ETH-USDT-SWAP"}
    \/ intent.side \notin {"buy", "sell"}
    \/ intent.posSide \notin {"long", "short", "net"}
    \/ \E f \in {intent.usdt_amount, intent.limit_px, intent.take_profit,
                 intent.stop_loss, intent.leverage} : f.k = "text"
    \/ intent.usdt_amount.k = "num" /\ intent.usdt_amount.v <= 0
    \/ intent.limit_px.k = "num" /\ intent.limit_px.v <= 0
    \/ intent.leverage.k = "num" /\ intent.leverage.v <= 0
    \/ intent.take_profit.k = "none" \/ intent.stop_loss.k = "none"

\* C15: an intent that fails validation is rejected with ValueError before
\* any exchange call: place_okx_order has failed and has issued no call.
C15_ValidationFirst ==
    (o_pc # "idle" /\ Invalid(o_intent))
    => /\ o_pc = "failed" /\ o_err.type = "ValueError"
       /\ o_calls = <<>> /\ o_result = <<>>
       /\ acct_lever = <<>>

\* An intent whose only fault is a leverage of zero was rejected.
C15_Witness ==
    /\ o_pc = "failed" /\ o_calls = <<>> /\ o_err.at = "leverage"
    /\ o_intent.leverage = Num(0)
    /\ o_intent.instId = "BTC-USDT-SWAP" /\ o_intent.side = "sell"
    /\ o_intent.posSide = "short" /\ o_intent.usdt_amount = Num(3)
    /\ o_intent.limit_px = Num(2) /\ o_intent.take_profit = Num(5)
    /\ o_intent.stop_loss = Num(1)

\* The latest call of _quantize_size had a lot step L > 0.
StepPositive == q_pc # "idle" /\ q_step.k = "numstr" /\ q_step.v > 0

\* C16: for a size s and a lot step L > 0 with s >= L, _quantize_size
\* returns q with q <= s, q a whole multiple of L and s - q < L.
C16_QuantizeFloors ==
    (StepPositive /\ q_size >= q_step.v)
    => /\ q_pc = "returned" /\ q_ret # <<>>
       /\ q_ret[1] <= q_size
       /\ q_ret[1] % q_step.v = 0
       /\ q_size - q_ret[1] < q_step.v

\* Lot step 0.001 and size 0.0019 gave 0.001.
C16_Witness ==
    /\ q_pc = "returned" /\ q_step = Dec(10, 3) /\ q_size = 19
    /\ q_ret = <<10>>

C18_RejectionRaises ==
    [][\A res \in PlaceResponses :
        PlaceReply(res)
        => /\ res.code \in NonZero
              => /\ o_pc' = "failed" /\ o_result' = <<>>
                 /\ o_err'.type = "RuntimeError" /\ o_err'.code = res.code
           /\ (res.code \notin NonZero /\ res.data = "order"
                  /\ res.sCode \in NonZero)
              => /\ o_pc' = "failed" /\ o_result' = <<>>
                 /\ o_err'.type = "RuntimeError" /\ o_err'.code = res.sCode
           /\ o_result' # <<>>
              => /\ res.code \notin NonZero /\ res.sCode \notin NonZero
                 /\ o_result'[1].raw_response = res
                 /\ o_pc' = "done"]_vars

\* The order was rejected by its sCode under a top-level code of zero.
C18_Witness ==
    /\ o_pc = "failed" /\ o_err = [type |-> "RuntimeError", at |-> "sCode",
                                   code |-> "51008"]
    /\ "place_order" \in Issued /\ o_result = <<>>

\* C19: for every exchange round trip of place_okx_order (balance, position
\* mode, mode switch, leverage, instrument lookup, order placement) a
\* response whose status is non-zero when the retry wrapper returns it makes
\* place_okx_order fail in that step, with no order placed after it.
C19_NonZeroStatusFails ==
    [][/\ \A res \in BalanceResponses :
             (BalanceReply(res) /\ res.code \in NonZero) => o_pc' = "failed"
       /\ \A res \in ConfigResponses :
             (ConfigReply(res) /\ res.code \in NonZero) => o_pc' = "failed"
       /\ \A code \in NonZero : SwitchReply(code) => o_pc' = "failed"
       /\ \A code \in NonZero : LeverageReply(code) => o_pc' = "failed"
       /\ \A res \in InstrumentResponses :
             ((InstrumentReply(res) \/ LotReply(res)) /\ res.code \in NonZero)
             => o_pc' = "failed"
       /\ \A res \in PlaceResponses :
             (PlaceReply(res) /\ res.code \in NonZero) => o_pc' = "failed"]_vars

\* C20: the required mode is long_short_mode for posSide long or short and
\* net_mode for net, and once the mode was read set_position_mode is called
\* if and only if the account's mode differs from the required one.
C20_SwitchIffMismatch ==
    [][\A res \in ConfigResponses :
        ConfigReply(res)
        => LET required == IF o_intent.posSide \in {"long", "short"}
                           THEN "long_short_mode" ELSE "net_mode"
           IN /\ acct_mode # required
                 => (o_pc' = "switch"
                        /\ o_calls' = Append(o_calls, "set_position_mode"))
              /\ acct_mode = required
                 => (o_pc' = "leverage"
                        /\ "set_position_mode" \notin
                              {o_calls'[n] : n \in 1..Len(o_calls')})]_vars

\* The places in a get_positions response of the position close_position
\* looks up: the first one of the side asked for.
FirstOnSide(res) ==
    {n \in 1..Len(res.data) :
        /\ res.data[n].posSide = c_args.posSide
        /\ \A m \in 1..(n - 1) : res.data[m].posSide # c_args.posSide}

ClosePlaced == \E n \in 1..Len(c_calls) : c_calls[n] = "place_order"

\* C21: when get_positions answers with no position of the requested side,
\* or with one whose size is not strictly positive, close_position raises
\* ValueError in that step, and it has not called place_order and never
\* calls it afterwards.
C21_CloseNeedsPosition ==
    [][/\ \A res \in PositionsResponses :
            (/\ c_pc = "positions"
             /\ res.code # "raised"
             /\ \/ FirstOnSide(res) = {}
                \/ \E n \in FirstOnSide(res) : PosSize(res.data[n]) <= 0
             /\ PositionsReply(res))
            => /\ c_pc' = "failed"
               /\ c_err'.type = "ValueError"
               /\ ~ClosePlaced'
       /\ c_pc = "failed" => c_calls' = c_calls]_vars

\* The long position found has size "0": close_position raised after
\* get_positions, its only call.
C21_Witness ==
    /\ c_pc = "failed" /\ c_err.type = "ValueError" /\ c_err.at = "pos_size"
    /\ c_args.posSide = "long"
    /\ c_position # <<>> /\ c_position[1].pos = Dec(0, 0)
    /\ c_calls = <<"get_positions">>

\* C22: the payload close_position hands to place_order is a reduce-only
\* limit order of the position's side, selling for long and buying for
\* short, whose size is the size of the position found rounded down to a
\* whole multiple of the lot step; and close_position calls nothing but
\* get_positions, get_instruments and place_order.
C22_CloseReduceOnly ==
    /\ c_payload # <<>>
       => /\ c_payload[1].reduceOnly
          /\ c_payload[1].ordType = "limit"
          /\ c_payload[1].posSide = c_args.posSide
          /\ c_args.posSide = "long" => c_payload[1].side = "sell"
          /\ c_args.posSide = "short" => c_payload[1].side = "buy"
          /\ c_position # <<>> /\ c_position[1].posSide = c_args.posSide
          /\ c_pos_size = PosSize(c_position[1]) /\ c_pos_size > 0
          /\ q_step.k = "numstr" /\ q_step.v > 0
          /\ c_payload[1].sz > 0
          /\ c_payload[1].sz <= c_pos_size
          /\ c_payload[1].sz % q_step.v = 0
          /\ c_pos_size - c_payload[1].sz < q_step.v
    /\ ClosePlaced => c_payload # <<>>
    /\ \A n \in 1..Len(c_calls) :
          c_calls[n] \in {"get_positions", "get_instruments", "place_order"}

\* A long position of 1.5 with lot step 1 was closed by selling 1.
C22_Witness ==
    /\ c_pc = "done" /\ c_args.posSide = "long"
    /\ c_pos_size = 15000 /\ q_step = Dec(10000, 0)
    /\ c_payload[1].side = "sell" /\ c_payload[1].sz = 10000
    /\ c_payload[1].reduceOnly

\* The calls of get_instruments place_okx_order has issued.
InstrumentQueries == {n \in 1..Len(o_calls) : o_calls[n] = "get_instruments"}

\* C23: once an instrument was resolved, place_okx_order resolves it again
\* without another get_instruments call: it issues at most one such call,
\* the second one being issued only after the first has answered with the
\* instrument.
C23_ResolveCached == Cardinality(InstrumentQueries) <= 1

\* An intent with nothing wrong apart from its stop levels.
OtherwiseValid(intent) ==
    /\ intent.instId \in {"BTC-USDT-SWAP", "ETH-USDT-SWAP"}
    /\ intent.side \in {"buy", "sell"}
    /\ intent.posSide \in {"long", "short", "net"}
    /\ intent.usdt_amount.k = "num" /\ intent.usdt_amount.v > 0
    /\ intent.limit_px.k = "num" /\ intent.limit_px.v > 0
    /\ intent.leverage.k = "num" /\ intent.leverage.v > 0

Absent(x) == x.k = "none"

\* C24 as stated: an intent with nothing else wrong is rejected by the
\* validation, before the first exchange call, exactly when both
\* take_profit and stop_loss are absent; with one of them absent it passes.
C24_OneStopLevelSuffices ==
    (o_pc # "idle" /\ OtherwiseValid(o_intent))
    => ((o_pc = "failed" /\ o_calls = <<>>)
          <=> (Absent(o_intent.take_profit) /\ Absent(o_intent.stop_loss)))

\* C24: an intent with nothing else wrong is rejected by the validation
\* with ValueError, before the first exchange call, when take_profit or
\* stop_loss is absent, and it passes when both are numbers.
C24_BothStopLevelsRequired ==
    (o_pc # "idle" /\ OtherwiseValid(o_intent))
    => /\ (Absent(o_intent.take_profit) \/ Absent(o_intent.stop_loss))
          => /\ o_pc = "failed" /\ o_err.type = "ValueError"
             /\ o_calls = <<>>
       /\ (o_intent.take_profit.k = "num" /\ o_intent.stop_loss.k = "num")
          => /\ o_calls # <<>>
             /\ o_calls[1] = "get_account_balance"

\* An intent with a stop_loss and no take_profit was rejected.
C24_Witness ==
    /\ o_pc = "failed" /\ o_err.type = "ValueError" /\ o_calls = <<>>
    /\ OtherwiseValid(o_intent)
    /\ Absent(o_intent.take_profit) /\ o_intent.stop_loss = Num(1)

\* The derivative-native id of the instrument a spelling names.
NativeOf(symbol) == symbol[1] \o "-" \o symbol[3] \o "-SWAP"

\* C25: _normalize_inst_id is idempotent and maps the native id, the pair and
\* the pair with its settlement currency of one instrument to that native
\* id; so a watcher registered under any spelling carries the native id and
\* is in the native id's list, the feed subscription of its task is recorded
\* under the native id, and a handled tick with the native id triggers every
\* scheduled watcher of the instrument whose predicate the price satisfies,
\* whatever its spelling, and no other.
C25_NormalizeToNative ==
    [][/\ \A s \in Symbols :
            /\ NormalizeInstId(NormalizeInstId(s)) = NormalizeInstId(s)
            /\ Text(NormalizeInstId(s)) = NativeOf(s)
            /\ NativeOf(s) \in Insts
       /\ \A c \in 1..ncalls' :
            /\ wobj'[c].inst_id = NativeOf(wobj'[c].symbol)
            /\ wobj'[c].status = "scheduled"
                  => \E n \in 1..Len(watchers'[NativeOf(wobj'[c].symbol)]) :
                        watchers'[NativeOf(wobj'[c].symbol)][n] = c
            /\ task'[c] = "done" => NativeOf(wobj'[c].symbol) \in subscribed'
       /\ subscribed' \subseteq {NativeOf(wobj'[c].symbol) : c \in 1..ncalls'}
       /\ HandleStep =>
            \A c \in 1..ncalls :
                (/\ wobj[c].status = "scheduled"
                 /\ NativeOf(wobj[c].symbol) = Head(inbox).instId)
                => (wobj'[c].status = "triggered"
                      <=> IF wobj[c].direction = "above"
                          THEN Head(inbox).last >= wobj[c].target_price
                          ELSE Head(inbox).last <= wobj[c].target_price)]_vars

\* A watcher registered as BTC/USDT:USDT and one registered as BTC-USDT-SWAP
\* were triggered by the same tick, with one subscription recorded.
C25_Witness ==
    /\ ncalls = 2
    /\ wobj[1].symbol = <<"BTC", "/", "USDT", ":", "USDT">>
    /\ wobj[2].symbol = NativeSymbol("BTC")
    /\ wobj[1].status = "triggered" /\ wobj[2].status = "triggered"
    /\ wobj[1].last_price = <<3>> /\ wobj[2].last_price = <<3>>
    /\ subscribed = {"BTC-USDT-SWAP"}

\* Watcher c is in the active list of instrument i.
Listed(c, i, lists) == \E n \in 1..Len(lists[i]) : lists[i][n] = c

\* The tick being handled is one of c's instrument that satisfies c's
\* predicate.
OwnTickHits(c) ==
    /\ HandleStep
    /\ Head(inbox).instId = wobj[c].inst_id
    /\ \/ /\ wobj[c].direction = "above"
          /\ Head(inbox).last >= wobj[c].target_price - wobj[c].tolerance
       \/ /\ wobj[c].direction = "below"
          /\ Head(inbox).last <= wobj[c].target_price + wobj[c].tolerance

\* C26: a feed watcher with direction above or below is SCHEDULED and in its
\* instrument's list when subscribe returns, and every step other than the
\* handling of a tick of its own instrument that satisfies its predicate
\* (a subscribe call, a step of a feed task, the arrival or the handling of
\* any other tick) leaves it unchanged and in that list; a feed watcher is
\* never EXPIRED, whatever max_checks was given.
C26_StaysScheduled ==
    [][\A c \in CallIds :
        /\ (c = ncalls' /\ ncalls' # ncalls /\ wsAvailable)
              => /\ wobj'[c].status = "scheduled"
                 /\ Listed(c, wobj'[c].inst_id, watchers')
        /\ (/\ wobj[c].mode = "websocket"
            /\ wobj[c].direction \in {"above", "below"}
            /\ wobj[c].status = "scheduled")
              => /\ Listed(c, wobj[c].inst_id, watchers)
                 /\ ~OwnTickHits(c)
                       => /\ wobj'[c] = wobj[c]
                          /\ Listed(c, wobj[c].inst_id, watchers')
        /\ wobj'[c].mode = "websocket" => wobj'[c].status # "expired"]_vars

\* Watcher 1 is still scheduled and listed after a tick of its instrument
\* that did not match and a tick of the other instrument that triggered
\* watcher 2.
C26_Witness ==
    /\ wobj[1].inst_id = "BTC-USDT-SWAP" /\ wobj[1].direction = "above"
    /\ wobj[1].status = "scheduled" /\ watchers["BTC-USDT-SWAP"] = <<1>>
    /\ wobj[2].inst_id = "ETH-USDT-SWAP" /\ wobj[2].status = "triggered"
    /\ wobj[2].last_price = <<3>>
    /\ sub_sent["BTC-USDT-SWAP"] > 0
    /\ inbox # <<>> /\ Head(inbox).instId = "BTC-USDT-SWAP"
    /\ Head(inbox).last = 1

\* This step triggers a watcher with a price that satisfies its predicate:
\* the handling of a tick of its instrument, or a sample of its polling task.
TriggerHit ==
    \E c \in CallIds :
        /\ wobj[c].status = "scheduled" /\ wobj'[c].status = "triggered"
        /\ wobj'[c].last_price # <<>>
        /\ \/ /\ wobj[c].direction = "above"
              /\ wobj'[c].last_price[1]
                    >= wobj[c].target_price - wobj[c].tolerance
           \/ /\ wobj[c].direction = "below"
              /\ wobj'[c].last_price[1]
                    <= wobj[c].target_price + wobj[c].tolerance
        /\ \/ /\ wobj[c].mode = "websocket" /\ HandleStep
              /\ ParseTick(Head(inbox))
                    = <<[instId |-> wobj[c].inst_id,
                         last_price |-> wobj'[c].last_price[1]]>>
           \/ /\ wobj[c].mode = "polling" /\ task[c] = "poll"
              /\ wobj'[c].samples = wobj[c].samples + 1

\* C27: the wake signal goes from unset to set, and a waiting flow is woken,
\* only in a step that triggers a watcher with a price satisfying its
\* predicate; a subscribe call, the expiry of a polling watcher and the
\* handling of a message that is not a ticker or of a tick that hits no
\* watcher leave the signal and the flow as they are.
C27_OnlyHitSetsWake ==
    [][/\ (event' /\ ~event) => TriggerHit
       /\ (flow = "waiting" /\ flow' \notin {"waiting", "timeout"})
             => TriggerHit
       /\ ncalls' # ncalls => (event' = event /\ flow' = flow)
       /\ (\E c \in CallIds :
              wobj[c].status = "scheduled" /\ wobj'[c].status = "expired")
             => (event' = event /\ flow' = flow)
       /\ (HandleStep /\ ~TriggerHit) => (event' = event /\ flow' = flow)
       /\ (HandleStep /\ ParseTick(Head(inbox)) = <<>>)
             => UNCHANGED <<event, flow, wobj, watchers, last_trigger>>]_vars

\* A flow waits, unwoken, after the only polling watcher has expired.
C27_Witness ==
    /\ ~wsAvailable /\ ncalls = 1
    /\ wobj[1].status = "expired" /\ task[1] = "done"
    /\ flow = "waiting" /\ ~event

\* The price satisfies the predicate of watcher w.
Satisfies(w, price) ==
    \/ w.direction = "above" /\ price >= w.target_price - w.tolerance
    \/ w.direction = "below" /\ price <= w.target_price + w.tolerance

\* The largest number of a set of numbers that is not empty.
Last(places) == CHOOSE n \in places : \A k \in places : k <= n

\* C28: the handling of one tick goes over the instrument's list, which is
\* in the order of registration, and triggers every watcher in it whose
\* predicate the price satisfies, keeping the others in their order; if any
\* was hit, _last_trigger is afterwards the record of the hit watcher that
\* was registered last.
C28_OnePassTriggersAll ==
    [][(HandleStep /\ ParseTick(Head(inbox)) # <<>>) =>
        LET m == ParseTick(Head(inbox))[1]
            list == watchers[m.instId]
            hitters == {n \in 1..Len(list) :
                            Satisfies(wobj[list[n]], m.last_price)}
        IN /\ \A n \in 1..Len(list) : \A k \in 1..Len(list) :
                 n < k => list[n] < list[k]
           /\ \A n \in 1..Len(list) : wobj[list[n]].status = "scheduled"
           /\ \A n \in hitters :
                 /\ wobj'[list[n]].status = "triggered"
                 /\ wobj'[list[n]].last_price = <<m.last_price>>
           /\ watchers'[m.instId]
                 = SelectSeq(list, LAMBDA c : ~Satisfies(wobj[c], m.last_price))
           /\ hitters = {} => last_trigger' = last_trigger
           /\ hitters # {} =>
                 /\ last_trigger' # <<>>
                 /\ last_trigger'[1].status = "triggered"
                 /\ last_trigger'[1].last_price = m.last_price
                 /\ last_trigger'[1].direction
                       = wobj[list[Last(hitters)]].direction
                 /\ last_trigger'[1].target_price
                       = wobj[list[Last(hitters)]].target_price]_vars

\* A tick at the target triggered the watcher above, registered first, and
\* the watcher below, registered second; the last trigger is the second's.
C28_Witness ==
    /\ ncalls = 2
    /\ wobj[1].direction = "above" /\ wobj[2].direction = "below"
    /\ wobj[1].tolerance = 0 /\ wobj[2].tolerance = 0
    /\ wobj[1].status = "triggered" /\ wobj[2].status = "triggered"
    /\ wobj[1].last_price = <<2>> /\ wobj[2].last_price = <<2>>
    /\ last_trigger # <<>> /\ last_trigger[1].direction = "below"
    /\ watchers["BTC-USDT-SWAP"] = <<>>

\* Polling task c takes a sample in this step.
Samples(c) == task[c] = "poll" /\ wobj'[c].samples = wobj[c].samples + 1

C30_PathsAgree ==
    [][\A c \in CallIds :
        /\ (/\ HandleStep /\ ParseTick(Head(inbox)) # <<>>
            /\ Listed(c, Head(inbox).instId, watchers))
              => (wobj'[c].status = "triggered"
                    <=> PollHit(wobj[c].direction, wobj[c].target_price,
                                wobj[c].tolerance, Head(inbox).last))
        /\ \A p \in Prices :
              (task[c] = "poll" /\ PollSample(c, p))
              => (wobj'[c].status = "triggered"
                    <=> Hit(wobj[c].direction, wobj[c].target_price,
                            wobj[c].tolerance, p))]_vars

\* The parameters of a polling watcher that a sample at the threshold of its
\* tolerance triggered.
C30_Witness ==
    \E c \in CallIds :
        /\ wobj[c].mode = "polling" /\ wobj[c].status = "triggered"
        /\ wobj[c].direction = "below" /\ wobj[c].tolerance = 1
        /\ wobj[c].last_price = <<3>>

\* C31: while a polling task is inside its price fetch, the retry backoff
\* included, the other tasks can still be scheduled: another polling task
\* that is ready can start its own iteration, and a flow whose wait was
\* resolved can resume.
C31_LoopNeverBlocked ==
    \A c \in CallIds :
        task[c] = "fetching"
        => /\ \A d \in CallIds : task[d] = "poll" => ENABLED PollFetch(d)
           /\ flow = "woken" => ENABLED OnLoop(FlowResume)

\* The notional the order may use, usdt_amount * leverage / limit_px, over
\* a contract value of one unit: sizes and contract values are in units of
\* 0.0001, so size * ct_val <= NotionalCap says that
\* size * contract_value * limit_price <= margin * leverage.
NotionalCap ==
    (o_intent.usdt_amount.v * o_intent.leverage.v * 10000 * 10000)
        \div o_intent.limit_px.v

\* C32: the size of the order that is sent, times the contract value and the
\* limit price, is at most margin times leverage, and it is the largest
\* multiple of the lot step of which that is true: one lot step more would
\* exceed it.
C32_LargestSizeWithinNotional ==
    o_payload # <<>>
    => /\ o_payload[1].sz * o_ct_val_f <= NotionalCap
       /\ (o_payload[1].sz + q_step.v) * o_ct_val_f > NotionalCap

\* The lock is held only by the task that awaits start(), and is free when a
\* waiter is to resume.
LockScoped ==
    /\ ws_lock # 0 => task[ws_lock] = "connecting"
    /\ \A c \in CallIds : task[c] = "lock_wait" => \E n \in 1..Len(lock_waiters) :
                                                      lock_waiters[n] = c

\* Marks are left by successes only: the feed is marked connected only when
\* the connection it holds was started, an instrument is marked subscribed
\* only when a request for it went through.
MarksEarned ==
    /\ ws_connected => (ws # <<>> /\ ws[1] \in ws_started)
    /\ \A i \in Insts : i \in subscribed => sub_sent[i] > 0

\* Every task that is inside an attempt can complete it.
CanEstablish ==
    \A c \in CallIds :
        /\ task[c] = "start" => ENABLED FeedStart(c)
        /\ (task[c] = "lock_wait" /\ ws_lock = 0 /\ Head(lock_waiters) = c)
              => ENABLED FeedLocked(c)
        /\ task[c] = "connecting" => ENABLED FeedConnect(c, TRUE)
        /\ task[c] = "subscribing" => ENABLED FeedSubscribed(c, TRUE)

\* The step of a failure: start() or _ws.subscribe raises in task c.
FailedAttempt(c) == FeedConnect(c, FALSE) \/ FeedSubscribed(c, FALSE)

\* C33: a failure of one subscription attempt (start() or _ws.subscribe
\* raising) is scoped to that attempt: the lock is released (it is held only
\* by a task that is awaiting start()), the failure marks neither the feed
\* connected nor the instrument subscribed, it leaves the watchers, the other
\* tasks and the wake signal as they were, and every later attempt can still
\* go through (its steps are enabled).
C33_FailureScoped ==
    /\ [](LockScoped /\ MarksEarned /\ CanEstablish)
    /\ [][\A c \in CallIds :
            FailedAttempt(c)
            => /\ ws_lock' = 0
               /\ ws_connected' = ws_connected /\ subscribed' = subscribed
               /\ watchers' = watchers /\ wobj' = wobj
               /\ event' = event /\ last_trigger' = last_trigger
               /\ \A d \in CallIds \ {c} : task'[d] = task[d]]_vars

\* After a connect that failed, a later subscribe call has established the
\* feed and subscribed its instrument.
C33_Witness ==
    \E c, d \in CallIds :
        /\ c < d /\ task[c] = "connect_failed"
        /\ ws_connected /\ task[d] = "done"
        /\ wobj[d].inst_id \in subscribed

\* C34: channel state only grows: once the feed is marked connected it stays
\* connected, an instrument recorded as subscribed is never removed (also
\* after its watchers triggered or the flow gave up on timeout), and an
\* instrument is recorded as subscribed only while a connection object exists
\* and is marked connected.
C34_ChannelStateGrows ==
    /\ [](subscribed # {} => (ws # <<>> /\ ws_connected))
    /\ [][/\ ws_connected => ws_connected'
          /\ subscribed \subseteq subscribed']_vars

\* Both instruments are subscribed, the only watcher of one of them has
\* triggered and left its list, and the flow has given up on timeout.
C34_Witness ==
    /\ subscribed = Insts
    /\ flow = "timeout"
    /\ \E c \in CallIds :
          wobj[c].status = "triggered" /\ watchers[wobj[c].inst_id] = <<>>

\* C35: a subscribe call leaves the wake signal as it was, set or clear, and
\* leaves the recorded last trigger absent; so the wake signal can be set
\* while last_trigger() is absent.
C35_SubscribeKeepsSignal ==
    [][ncalls' = ncalls + 1
        => (event' = event /\ last_trigger' = <<>>)]_vars

\* A watcher triggered, and a subscribe call that came after it has erased
\* the record while the wake signal is still set.
C35_Witness ==
    /\ event /\ last_trigger = <<>>
    /\ \E c, d \in CallIds :
          c < d /\ d <= ncalls /\ wobj[c].status = "triggered"

\* Watcher c is in a list and its direction is neither above nor below.
OtherDirection(c) ==
    /\ c <= ncalls /\ wobj[c].mode = "websocket"
    /\ wobj[c].direction \notin {"above", "below"}
    /\ Listed(c, wobj[c].inst_id, watchers)

\* C36: subscribe accepts any direction; the handling of the first tick of
\* its instrument takes a feed watcher whose direction is neither above nor
\* below out of the instrument's list and leaves the watcher as it was
\* (SCHEDULED, not triggered), and when the list holds only such watchers the
\* wake signal and the last trigger are left as they were.
C36_OtherDirectionDropped ==
    /\ [](ncalls < MaxCalls
            => \A d \in Directions :
                  ENABLED Subscribe(NativeSymbol("BTC"), 2, d, 0, <<1>>))
    /\ [][(HandleStep /\ ParseTick(Head(inbox)) # <<>>)
            => LET i == ParseTick(Head(inbox))[1].instId IN
               /\ \A c \in CallIds :
                     (OtherDirection(c) /\ wobj[c].inst_id = i)
                     => /\ ~Listed(c, i, watchers')
                        /\ wobj'[c] = wobj[c]
                        /\ wobj'[c].status = "scheduled"
               /\ (\A n \in 1..Len(watchers[i]) : OtherDirection(watchers[i][n]))
                     => (event' = event /\ last_trigger' = last_trigger)]_vars

\* A feed watcher with direction sideways that is SCHEDULED and in no list:
\* a tick took it out.
C36_Witness ==
    \E c \in CallIds :
        /\ c <= ncalls /\ wobj[c].mode = "websocket"
        /\ wobj[c].direction = "sideways" /\ wobj[c].status = "scheduled"
        /\ ~Listed(c, wobj[c].inst_id, watchers)
        /\ ~event

\* place_okx_order fails in a step that comes after set_leverage.
LateFailure == o_pc \in {"instrument", "lot", "place"} /\ o_pc' = "failed"

\* C37: a failure after the mode switch and the leverage call (instrument
\* lookup, quantized size of zero, rejected order) undoes neither: the
\* failing step and every step after it leave the account's position mode
\* and leverage as the calls left them and issue no further exchange call,
\* so the account is not as it was before the call.
C37_NoRollback ==
    [][(LateFailure \/ o_pc = "failed")
        => /\ acct_mode' = acct_mode /\ acct_lever' = acct_lever
           /\ o_calls' = o_calls]_vars

\* The size came out as zero after the account was switched to another mode
\* than the one it was in and its leverage was set.
C37_Witness ==
    /\ o_pc = "failed" /\ o_err.at = "quantize" /\ o_err.type = "ValueError"
    /\ o_pos_mode \in PosModes /\ acct_mode # o_pos_mode
    /\ acct_lever = ToFloat(o_intent.leverage)

\* A message that is not parseable JSON, is not an object, has no data or an
\* empty data list, lacks the instrument id, or carries no numeric price.
Malformed(m) ==
    \/ m.wire = "text"
    \/ m.wire = "list"
    \/ m.data = "empty"
    \/ m.instId = ""
    \/ m.price \in {"none", "text"}

\* C38: the handling of a feed message that is not parseable JSON, is not an
\* object, has a missing or empty data list, lacks an instrument id or
\* carries no numeric price leaves every watcher list, every watcher, the
\* last trigger record and the wake signal unchanged.
C38_MalformedIgnored ==
    [][(HandleStep /\ Malformed(Head(inbox)))
        => /\ watchers' = watchers /\ wobj' = wobj
           /\ last_trigger' = last_trigger /\ event' = event]_vars

\* A message without a numeric price is about to be handled while a watcher
\* of its instrument is listed that a tick at the value it carries would
\* trigger.
C38_Witness ==
    /\ inbox # <<>> /\ Head(inbox).price = "text" /\ ~event
    /\ \E c \in CallIds :
          /\ Listed(c, Head(inbox).instId, watchers)
          /\ wobj[c].status = "scheduled"
          /\ Satisfies(wobj[c], Head(inbox).last)

\* The smaller of two numbers.
Min(a, b) == IF a < b THEN a ELSE b

\* C39: the wrapper sleeps 0.3 s before the second attempt and 0.6 s before
\* the third (the base delay, then twice the base delay), once after each
\* retryable response that is not the one of the final attempt: never after
\* the final attempt, never after a response that is not retryable.
C39_BackoffSchedule ==
    /\ Len(r_slept) = Min(LeadingRetryable(r_hist), MAX_RETRIES)
    /\ \A n \in 1..Len(r_slept) :
          /\ r_slept[n] = IF n = 1 THEN RETRY_DELAY ELSE 2 * RETRY_DELAY
          /\ r_slept[n] = IF n = 1 THEN 3 ELSE 6
          /\ r_hist[n].code \in RETRY_CODES
    /\ r_pc = "sleep"
          => /\ r_calls <= MAX_RETRIES /\ Len(r_slept) = r_calls
             /\ r_last[1].code \in RETRY_CODES
    /\ r_pc = "returned" => Len(r_slept) = r_calls - 1

\* Two retryable responses and two sleeps, then a response that is not
\* retryable, returned at once.
C39_Witness ==
    /\ r_pc = "returned" /\ r_calls = 3
    /\ r_slept = <<3, 6>>
    /\ r_ret # <<>> /\ r_ret[1].code = "51008"
====
